---------------------------- MODULE Spec2Model ----------------------------
(***************************************************************************)
(* A model of the risk-gated trading engine (src/trading): the Position   *)
(* Ledger (broker.py), the Risk Manager (risk.py), the Order Execution    *)
(* Pipeline (execution.py), the State Store (state.py) and the Trading    *)
(* Engine (engine.py) with its producer, consumer and health monitor.     *)
(*                                                                         *)
(* Numbers.  Prices are integers in units of 1/PriceScale (0.05, the      *)
(* configured slippage), sizes are whole units, money is price x size.    *)
(* Python's float division is modelled by integer division (\div) on      *)
(* these fixed-point values; comparisons against fractional limits are    *)
(* cross-multiplied, so they are exact.                                    *)
(*                                                                         *)
(* Optional values (float | None) are None == << >> or Some(v) == <<v>>.  *)
(***************************************************************************)
EXTENDS Integers, Sequences, FiniteSets, TLC

VARIABLES
    broker,        \* PaperBrokerClient: connected, balance, equity, margin_used, positions, last_prices
    risk,          \* RiskManager: daily_start_equity, equity_peak
    file,          \* content of the canonical state file (StateManager.path)
    tmp,           \* content of the temporary sibling file (path.with_suffix(".tmp"))
    lock,          \* StateManager._lock: the task holding it, or "free"
    state,         \* AsyncTradingEngine._state
    stateAlias,    \* TRUE when _state["positions"] is the broker's own positions dict
    queue,         \* AsyncTradingEngine._price_queue
    cancel_event,  \* AsyncTradingEngine._cancel_event
    pc,            \* where each of run/stop, producer, consumer, monitor is suspended
    local,         \* per-task locals that live across a suspension
    sincePersist,  \* seconds elapsed since _last_persist (saturating)
    today,         \* datetime.date.today(), as a day number
    hist,          \* history of the current run (quotes yielded, enqueued, handled, gate calls, writes)
    call           \* the last direct call of a component operation and its result (component specifications)

vars == <<broker, risk, file, tmp, lock, state, stateAlias, queue, cancel_event,
          pc, local, sincePersist, today, hist, call>>

---------------------------------------------------------------------------
(* Bounds of the model *)

\* quotes the feed yields, all runs together
MaxTicks == 3
\* calendar-day rollovers observed
MaxDay == 1
\* failed connection attempts before the feed answers
MaxAttempts == 7
\* restarts of the process on the same state file
MaxRestarts == 1
\* seconds the model's clock advances in one step
ClockStep == 5
\* capacity of the price queue in the model (asyncio.Queue(maxsize=1000) in the code)
QueueMaxsize == 2
\* orders filled by one Ledger driven on its own
MaxFills == 3

---------------------------------------------------------------------------
(* Configuration: AppConfig defaults (config.py), in model units *)

\* model units per 1.0 of price; one unit is simulated_slippage = 0.05
PriceScale == 20

Symbols == {"XAUUSD"}
symbols == <<"XAUUSD">>
initial_balance == 30000 * PriceScale
\* fractions as <<numerator, denominator>>
risk_per_trade == <<5, 1000>>
max_daily_loss == <<2, 100>>
max_drawdown == <<1, 10>>
volatility_limit == <<2, 100>>
max_global_exposure == 2
max_symbol_exposure == 1
leverage_limit == 20
spread_limit == PriceScale \div 2
simulated_spread == PriceScale \div 5
simulated_slippage == PriceScale \div 20
\* seconds between forced checkpoints (engine.py: time.time() - _last_persist > 5)
CheckpointInterval == 5

---------------------------------------------------------------------------
(* Helpers *)

None == << >>
Some(v) == <<v>>
IsNone(o) == o = << >>
Val(o) == o[1]

Abs(x) == IF x < 0 THEN -x ELSE x
Min(a, b) == IF a < b THEN a ELSE b
Max(a, b) == IF a > b THEN a ELSE b

\* F applied to v: binds the value of an expression that is used several times
Bind(v, F(_)) == F(v)

\* float division on non-negative fixed-point values
Div(a, b) == a \div b

RECURSIVE SumOver(_, _)
SumOver(f, S) ==
    IF S = {} THEN 0
    ELSE LET x == CHOOSE y \in S : TRUE IN f[x] + SumOver(f, S \ {x})

\* sum(g(pos) for pos in positions.values())
SumPositions(positions, G(_)) ==
    SumOver([s \in DOMAIN positions |-> G(positions[s])], DOMAIN positions)

---------------------------------------------------------------------------
(* Position Ledger: PaperBrokerClient (broker.py) *)

NoPositions == << >>

\* PaperBrokerClient.__init__
BrokerInit ==
    [connected |-> FALSE,
     balance |-> initial_balance,
     equity |-> initial_balance,
     margin_used |-> 0,
     positions |-> NoPositions,
     last_prices |-> << >>]

\* dict.get on the insertion-ordered _last_prices, kept as a sequence of <<symbol, mid>>
LastPriceGet(last_prices, symbol) ==
    IF \E i \in 1..Len(last_prices) : last_prices[i][1] = symbol
    THEN Some(last_prices[CHOOSE i \in 1..Len(last_prices) : last_prices[i][1] = symbol][2])
    ELSE None

\* _last_prices[symbol] = mid
LastPriceSet(last_prices, symbol, mid) ==
    IF \E i \in 1..Len(last_prices) : last_prices[i][1] = symbol
    THEN [i \in 1..Len(last_prices) |->
            IF last_prices[i][1] = symbol THEN <<symbol, mid>> ELSE last_prices[i]]
    ELSE Append(last_prices, <<symbol, mid>>)

\* next(iter(self._last_prices.values()), None)
FirstLastPrice(last_prices) ==
    IF Len(last_prices) = 0 THEN None ELSE Some(last_prices[1][2])

PositionPnl(mid_price, position) == (mid_price - position.entry) * position.size

PositionMargin(mid_price, position) == Div(Abs(position.size * mid_price), leverage_limit)

\* _mark_positions, mutant: equity is not recomputed from the marked positions
MarkPositionsStaleEquity(b, mid_price) ==
    Bind([s \in DOMAIN b.positions |->
            [b.positions[s] EXCEPT !.pnl = PositionPnl(mid_price, b.positions[s])]],
         LAMBDA marked :
            [b EXCEPT !.positions = marked,
                      !.margin_used =
                          SumPositions(marked, LAMBDA p : PositionMargin(mid_price, p))])

\* PaperBrokerClient._mark_positions
MarkPositions(b, mid_price) ==
    Bind([s \in DOMAIN b.positions |->
            [b.positions[s] EXCEPT !.pnl = PositionPnl(mid_price, b.positions[s])]],
         LAMBDA marked :
            [b EXCEPT !.positions = marked,
                      !.margin_used =
                          SumPositions(marked, LAMBDA p : PositionMargin(mid_price, p)),
                      !.equity = b.balance + SumPositions(marked, LAMBDA p : p.pnl)])

\* The quote price_stream builds from a fetched close (broker.py 106-125); volatility is
\* kept as the fraction <<|mid - last_mid|, last_mid>>, 0.0 when last_mid is falsy
MakeTick(b, symbol, close, id) ==
    LET last == LastPriceGet(b.last_prices, symbol)
        last_mid == IF IsNone(last) THEN close ELSE Val(last)
    IN [id |-> id,
        symbol |-> symbol,
        bid |-> close - Div(simulated_spread, 2),
        ask |-> close + Div(simulated_spread, 2),
        spread |-> simulated_spread,
        volatility |-> IF last_mid # 0 THEN <<Abs(close - last_mid), last_mid>> ELSE <<0, 1>>,
        close |-> close]

\* price_stream's effect on the ledger for one fetched close: remember the mid, mark to market
StreamMark(b, symbol, close) ==
    MarkPositions([b EXCEPT !.last_prices = LastPriceSet(b.last_prices, symbol, close)], close)

\* PaperBrokerClient.get_account_info: the ledger after the call
AccountRefresh(b) ==
    Bind(IF IsNone(FirstLastPrice(b.last_prices))
         THEN b
         ELSE MarkPositions(b, Val(FirstLastPrice(b.last_prices))),
         LAMBDA m : [m EXCEPT !.equity = m.balance + SumPositions(m.positions, LAMBDA p : p.pnl)])

\* PaperBrokerClient.get_account_info: the dict it returns, read off the refreshed ledger
AccountInfo(b) ==
    [balance |-> b.balance,
     equity |-> b.equity,
     margin_used |-> b.margin_used,
     unrealized |-> SumPositions(b.positions, LAMBDA p : p.pnl)]

\* fill price: ask for BUY / bid for SELL, plus slippage in the trade direction
FillPrice(mid, side) ==
    IF side = "BUY"
    THEN mid + Div(simulated_spread, 2) + simulated_slippage
    ELSE mid - Div(simulated_spread, 2) - simulated_slippage

\* the position update rule, mutant: a flip keeps the old entry price
FillPositionKeepEntry(position, signed_size, fill_price) ==
    IF position.size = 0 \/ (position.size > 0 /\ signed_size > 0)
                         \/ (position.size < 0 /\ signed_size < 0)
    THEN [position |-> [position EXCEPT
                          !.entry = IF position.size # 0
                                    THEN Div(position.entry * Abs(position.size)
                                               + fill_price * Abs(signed_size),
                                             Abs(position.size + signed_size))
                                    ELSE position.entry,
                          !.size = position.size + signed_size],
          realized |-> 0]
    ELSE [position |-> [position EXCEPT
                          !.size = position.size + signed_size,
                          !.entry = IF position.size + signed_size = 0 THEN 0 ELSE @],
          realized |-> (fill_price - position.entry)
                          * Min(Abs(position.size), Abs(signed_size))
                          * (IF position.size > 0 THEN 1 ELSE -1)]

\* the position update rule, mutant: adding to a position takes the last fill price as entry
FillPositionLastPrice(position, signed_size, fill_price) ==
    IF position.size = 0 \/ (position.size > 0 /\ signed_size > 0)
                         \/ (position.size < 0 /\ signed_size < 0)
    THEN [position |-> [position EXCEPT
                          !.entry = IF position.size # 0 THEN fill_price ELSE position.entry,
                          !.size = position.size + signed_size],
          realized |-> 0]
    ELSE [position |-> [position EXCEPT
                          !.size = position.size + signed_size,
                          !.entry = IF position.size + signed_size = 0 THEN 0
                                    ELSE fill_price],
          realized |-> (fill_price - position.entry)
                          * Min(Abs(position.size), Abs(signed_size))
                          * (IF position.size > 0 THEN 1 ELSE -1)]

\* the position update rule of submit_order (broker.py 164-183): the position after the
\* fill and the realized PnL added to balance
FillPosition(position, signed_size, fill_price) ==
    IF position.size = 0 \/ (position.size > 0 /\ signed_size > 0)
                         \/ (position.size < 0 /\ signed_size < 0)
    THEN LET new_size == position.size + signed_size
             entry == IF position.size # 0
                      THEN Div(position.entry * Abs(position.size)
                                 + fill_price * Abs(signed_size), Abs(new_size))
                      ELSE position.entry
         IN [position |-> [position EXCEPT !.entry = entry, !.size = new_size],
             realized |-> 0]
    ELSE LET closing_size == Min(Abs(position.size), Abs(signed_size))
             realized == (fill_price - position.entry) * closing_size
                            * (IF position.size > 0 THEN 1 ELSE -1)
             new_size == position.size + signed_size
         IN [position |-> [position EXCEPT !.size = new_size,
                                           !.entry = IF new_size = 0 THEN 0 ELSE fill_price],
             realized |-> realized]

\* dict with key s set to v / with key s popped
DictSet(d, s, v) == [k \in DOMAIN d \cup {s} |-> IF k = s THEN v ELSE d[k]]
DictPop(d, s) == [k \in DOMAIN d \ {s} |-> d[k]]

\* the positions map after the fill, mutant: the position is stored whatever its size
StorePositionAlways(positions, symbol, position) == DictSet(positions, symbol, position)

\* the positions map after the fill (broker.py 186-189): a position of size 0 is popped
StorePosition(positions, symbol, position) ==
    IF position.size = 0
    THEN DictPop(positions, symbol)
    ELSE DictSet(positions, symbol, position)

\* submit_order after the latency delay, with the mid it found or fetched (broker.py 151-191)
ApplyFill(b, order, mid) ==
    Bind(FillPosition(IF order.symbol \in DOMAIN b.positions
                      THEN b.positions[order.symbol]
                      ELSE [size |-> 0, entry |-> FillPrice(mid, order.side), pnl |-> 0],
                      IF order.side = "BUY" THEN order.size ELSE -order.size,
                      FillPrice(mid, order.side)),
         LAMBDA f :
            LET position == [f.position EXCEPT
                               !.pnl = (mid - f.position.entry) * f.position.size]
                positions == StorePosition(b.positions, order.symbol, position)
            IN [broker |->
                   MarkPositions([b EXCEPT
                                    !.balance = b.balance + f.realized,
                                    !.positions = positions,
                                    !.last_prices =
                                        LastPriceSet(b.last_prices, order.symbol, mid)], mid),
                result |-> [success |-> TRUE, filled_size |-> order.size,
                            avg_price |-> Some(FillPrice(mid, order.side)),
                            reason |-> "None"]])

OrderFailed(reason) ==
    [success |-> FALSE, filled_size |-> 0, avg_price |-> None, reason |-> reason]

---------------------------------------------------------------------------
(* Risk Manager (risk.py) *)

\* RiskManager.__init__
RiskInit == [daily_start_equity |-> None, equity_peak |-> None]

\* x <= y * (1 - frac), cross-multiplied
AtOrBelowLoss(x, y, frac) == x * frac[2] <= y * (frac[2] - frac[1])

\* RiskManager._check_circuit_breakers: the risk state after the call and the violation raised
PeakOr(peak, equity) == IF IsNone(peak) \/ Val(peak) = 0 THEN equity ELSE Val(peak)

CheckCircuitBreakers(r, equity) ==
    Bind(IF IsNone(r.daily_start_equity)
         THEN [daily_start_equity |-> Some(equity), equity_peak |-> Some(equity)]
         ELSE r,
         LAMBDA r1 :
           Bind([r1 EXCEPT !.equity_peak = Some(Max(PeakOr(r1.equity_peak, equity), equity))],
                LAMBDA r2 :
                  [risk |-> r2,
                   reason |->
                      IF AtOrBelowLoss(equity, Val(r2.daily_start_equity), max_daily_loss)
                      THEN "Daily loss limit reached; trading halted"
                      ELSE IF AtOrBelowLoss(equity, Val(r2.equity_peak), max_drawdown)
                      THEN "Max drawdown breached; trading halted"
                      ELSE "ok"]))

\* compute_position_size, mutant: the risk amount is divided by the stop distance taken
\* ten times too wide
ComputePositionSizeWideStop(equity, stop_distance) ==
    IF stop_distance <= 0
    THEN [reason |-> "Stop distance must be positive", size |-> 0]
    ELSE [reason |-> "ok",
          size |-> Max(Div(Div(equity * risk_per_trade[1], risk_per_trade[2]),
                           10 * stop_distance), 0)]

\* compute_position_size, mutant: the risk amount is divided by one price unit, not by
\* the stop distance
ComputePositionSizeUnitStop(equity, stop_distance) ==
    [reason |-> "ok",
     size |-> Max(Div(Div(equity * risk_per_trade[1], risk_per_trade[2]), PriceScale), 0)]

\* RiskManager.compute_position_size
ComputePositionSize(equity, stop_distance) ==
    IF stop_distance <= 0
    THEN [reason |-> "Stop distance must be positive", size |-> 0]
    ELSE LET risk_amount == Div(equity * risk_per_trade[1], risk_per_trade[2])
         IN [reason |-> "ok", size |-> Max(Div(risk_amount, stop_distance), 0)]

\* RiskManager._check_leverage_and_exposure
CheckLeverageAndExposure(symbol, price, size, account, positions) ==
    LET notional == price * size
        projected_margin == account.margin_used + Div(notional, leverage_limit)
        current_symbol_notional ==
            IF symbol \in DOMAIN positions THEN Abs(positions[symbol].size * price) ELSE 0
        aggregate_notional == SumPositions(positions, LAMBDA p : Abs(p.size * price))
    IN IF projected_margin > account.equity
       THEN "Insufficient margin for order"
       ELSE IF current_symbol_notional + notional > account.equity * max_symbol_exposure
       THEN "Per-symbol exposure limit exceeded"
       ELSE IF aggregate_notional + notional > account.equity * max_global_exposure
       THEN "Global exposure limit exceeded"
       ELSE "ok"

\* RiskManager.validate_order: the risk state after the call, and the approved size or
\* the RiskViolation raised
ValidateOrder(r, ctx, account, positions) ==
    Bind(CheckCircuitBreakers(r, account.equity), LAMBDA cb :
    Bind(ComputePositionSize(account.equity, Abs(ctx.price - ctx.stop_loss)), LAMBDA cs :
    Bind(IF cb.reason # "ok" THEN cb.reason
         ELSE IF cs.reason # "ok" THEN cs.reason
         ELSE IF cs.size <= 0 THEN "Computed size is zero; reject order"
         ELSE CheckLeverageAndExposure(ctx.symbol, ctx.price, cs.size, account, positions),
         LAMBDA reason :
           [risk |-> cb.risk,
            approved |-> reason = "ok",
            size |-> IF reason = "ok" THEN cs.size ELSE 0,
            reason |-> reason])))

---------------------------------------------------------------------------
(* State Store: StateManager (state.py) and the JSON text it reads and writes *)

(* A JSON text is a sequence of tokens [t, s, d]: t is the kind of token     *)
(* ("{", "}", "[", "]", "key", "num", "str", "null"), s a key's name or a    *)
(* number's sign, d the decimal digits of a number or the characters of a    *)
(* string.  A parsed JSON value is a node [k, n, d, o]: k its kind, n a      *)
(* number's value (an array's length), d a string's characters, o an         *)
(* object's members.                                                         *)

Tok(t, s, d) == [t |-> t, s |-> s, d |-> d]

RECURSIVE Digits(_)
\* the decimal digits of n >= 0, most significant first
Digits(n) == IF n < 10 THEN <<n>> ELSE Append(Digits(n \div 10), n % 10)

RECURSIVE FromDigits(_)
\* the number a digit string denotes
FromDigits(d) ==
    IF Len(d) = 0 THEN 0
    ELSE 10 * FromDigits(SubSeq(d, 1, Len(d) - 1)) + d[Len(d)]

\* datetime.date.isoformat(): the date as a string
IsoFormat(day) == Digits(day)

\* json.dumps of a number, mutant: the sign is not written
DumpNumUnsigned(n) == <<Tok("num", "", Digits(Abs(n)))>>

\* json.dumps of a number
DumpNum(n) == <<Tok("num", IF n < 0 THEN "-" ELSE "", Digits(Abs(n)))>>

\* json.dumps of a float | None
DumpOpt(o) == IF IsNone(o) THEN <<Tok("null", "", << >>)>> ELSE DumpNum(Val(o))

DumpKey(name) == <<Tok("key", name, << >>)>>

DumpStr(chars) == <<Tok("str", "", chars)>>

DumpPosition(p) ==
    <<Tok("{", "", << >>)>>
      \o DumpKey("size") \o DumpNum(p.size)
      \o DumpKey("entry") \o DumpNum(p.entry)
      \o DumpKey("pnl") \o DumpNum(p.pnl)
      \o <<Tok("}", "", << >>)>>

RECURSIVE DumpMembers(_, _)
DumpMembers(positions, S) ==
    IF S = {} THEN << >>
    ELSE LET s == CHOOSE x \in S : TRUE
         IN DumpKey(s) \o DumpPosition(positions[s]) \o DumpMembers(positions, S \ {s})

DumpPositions(positions) ==
    <<Tok("{", "", << >>)>> \o DumpMembers(positions, DOMAIN positions) \o <<Tok("}", "", << >>)>>

\* json.dumps(state, indent=2) of a state dict with the engine's keys
Dumps(s) ==
    <<Tok("{", "", << >>)>>
      \o DumpKey("positions") \o DumpPositions(s.positions)
      \o DumpKey("equity") \o DumpNum(s.equity)
      \o DumpKey("balance") \o DumpNum(s.balance)
      \o DumpKey("unrealized") \o DumpNum(s.unrealized)
      \o DumpKey("margin_used") \o DumpNum(s.margin_used)
      \o DumpKey("daily_start_equity") \o DumpOpt(s.daily_start_equity)
      \o DumpKey("equity_peak") \o DumpOpt(s.equity_peak)
      \o DumpKey("trading_day") \o DumpStr(s.trading_day)
      \o <<Tok("}", "", << >>)>>

JNode(k, n, d, o) == [k |-> k, n |-> n, d |-> d, o |-> o]
ParseFail == [ok |-> FALSE, val |-> JNode("null", 0, << >>, << >>), next |-> 0]
ParseOk(v, next) == [ok |-> TRUE, val |-> v, next |-> next]

RECURSIVE ParseValue(_, _), ParseMembers(_, _, _), ParseItems(_, _, _)
\* the JSON decoder on the value starting at token i
ParseValue(toks, i) ==
    IF i > Len(toks) THEN ParseFail
    ELSE LET t == toks[i]
         IN CASE t.t = "num" ->
                   ParseOk(JNode("num", (IF t.s = "-" THEN -1 ELSE 1) * FromDigits(t.d),
                                 << >>, << >>), i + 1)
              [] t.t = "null" -> ParseOk(JNode("null", 0, << >>, << >>), i + 1)
              [] t.t = "str" -> ParseOk(JNode("str", 0, t.d, << >>), i + 1)
              [] t.t = "{" -> ParseMembers(toks, i + 1, << >>)
              [] t.t = "[" -> ParseItems(toks, i + 1, 0)
              [] OTHER -> ParseFail

ParseMembers(toks, i, acc) ==
    IF i > Len(toks) THEN ParseFail
    ELSE IF toks[i].t = "}" THEN ParseOk(JNode("obj", 0, << >>, acc), i + 1)
    ELSE IF toks[i].t = "key"
    THEN Bind(ParseValue(toks, i + 1), LAMBDA v :
                IF v.ok THEN ParseMembers(toks, v.next, DictSet(acc, toks[i].s, v.val))
                ELSE ParseFail)
    ELSE ParseFail

ParseItems(toks, i, n) ==
    IF i > Len(toks) THEN ParseFail
    ELSE IF toks[i].t = "]" THEN ParseOk(JNode("arr", n, << >>, << >>), i + 1)
    ELSE Bind(ParseValue(toks, i), LAMBDA v :
                IF v.ok THEN ParseItems(toks, v.next, n + 1) ELSE ParseFail)

\* json.loads: the value, or JSONDecodeError (also on data after the value)
Loads(text) ==
    Bind(ParseValue(text, 1), LAMBDA r :
           IF r.ok /\ r.next = Len(text) + 1 THEN r ELSE ParseFail)

JOpt(j) == IF j.k = "null" THEN None ELSE Some(j.n)

\* the dict json.loads builds from an object with the engine's keys
ObjToState(j) ==
    [positions |-> [s \in DOMAIN j.o["positions"].o |->
                      [size |-> j.o["positions"].o[s].o["size"].n,
                       entry |-> j.o["positions"].o[s].o["entry"].n,
                       pnl |-> j.o["positions"].o[s].o["pnl"].n]],
     equity |-> j.o["equity"].n,
     balance |-> j.o["balance"].n,
     unrealized |-> j.o["unrealized"].n,
     margin_used |-> j.o["margin_used"].n,
     daily_start_equity |-> JOpt(j.o["daily_start_equity"]),
     equity_peak |-> JOpt(j.o["equity_peak"]),
     trading_day |-> j.o["trading_day"].d]

\* a value json.loads returns that is not a dict (a list, a number, a string, null)
NonDictState == [nondict |-> TRUE]
IsDict(s) == s # NonDictState

\* StateManager._default_state
DefaultState(day) ==
    [positions |-> NoPositions,
     equity |-> initial_balance,
     balance |-> initial_balance,
     unrealized |-> 0,
     margin_used |-> 0,
     daily_start_equity |-> Some(initial_balance),
     equity_peak |-> Some(initial_balance),
     trading_day |-> IsoFormat(day)]

\* StateManager.load: what it returns for the file content f (None: no file)
Load(f, day) ==
    IF IsNone(f) THEN DefaultState(day)
    ELSE Bind(Loads(Val(f)), LAMBDA r :
            IF ~r.ok THEN DefaultState(day)
            ELSE IF r.val.k = "obj" THEN ObjToState(r.val)
            ELSE NonDictState)

\* the dict persist serializes: _state, whose "positions" is the broker's own dict once
\* _handle_tick has stored it (engine.py 108)
Snapshot(st, alias, b) == IF alias THEN [st EXCEPT !.positions = b.positions] ELSE st

\* an empty file: what open(path, "w") leaves before the text is written
EmptyText == << >>
\* a text cut short, and a text that parses to a list
TruncatedText == SubSeq(Dumps(DefaultState(0)), 1, 5)
ListText == <<Tok("[", "", << >>), Tok("]", "", << >>)>>

---------------------------------------------------------------------------
(* Order Execution Pipeline: OrderHandler.execute (execution.py) *)

\* a call of the Risk Manager or of the Ledger made for quote id, as the pipeline makes it
GateEvent(op, id, approved, size) == [op |-> op, id |-> id, approved |-> approved, size |-> size]

OrderRequest(tick, side, size, price, stop_loss) ==
    [id |-> tick.id, symbol |-> tick.symbol, side |-> side, size |-> size, price |-> price,
     stop_loss |-> stop_loss]

NoOrder == << >>

\* tick.volatility > config.volatility_limit
VolatilityTooHigh(tick) ==
    tick.volatility[1] * volatility_limit[2] > volatility_limit[1] * tick.volatility[2]

ExecuteOutcome(r, status, result, order, gate) ==
    [risk |-> r, status |-> status, result |-> result, order |-> order, gate |-> gate]

EntryPrice(tick, signal) == IF signal = "BUY" THEN tick.ask ELSE tick.bid

OrderContext(tick, decision) ==
    [symbol |-> tick.symbol,
     side |-> IF decision.signal = "BUY" THEN "BUY" ELSE "SELL",
     price |-> EntryPrice(tick, decision.signal),
     stop_loss |-> Val(decision.stop_loss)]

\* execute, mutant: a rejection by the Risk Manager is logged and the order is submitted anyway
SubmitIgnoringRejection(tick, ctx, v, connected) ==
    ExecuteOutcome(v.risk, "latency", OrderFailed("pending"),
                   <<OrderRequest(tick, ctx.side, IF v.approved THEN v.size ELSE 1,
                                  ctx.price, ctx.stop_loss)>>,
                   <<GateEvent("validate_order", tick.id, v.approved, v.size),
                     GateEvent("submit_order", tick.id, TRUE,
                               IF v.approved THEN v.size ELSE 1)>>)

\* execute from the Risk Manager's answer v on (execution.py 57-87): a rejection is
\* returned; an approved order is built with the approved size and submitted, and
\* submit_order refuses it at once when disconnected or suspends in its latency delay
SubmitApproved(tick, ctx, v, connected) ==
    IF ~v.approved
    THEN ExecuteOutcome(v.risk, "result", OrderFailed(v.reason), NoOrder,
                        <<GateEvent("validate_order", tick.id, v.approved, v.size)>>)
    ELSE IF ~connected
    THEN ExecuteOutcome(v.risk, "result", OrderFailed("Disconnected"), NoOrder,
                        <<GateEvent("validate_order", tick.id, v.approved, v.size),
                          GateEvent("submit_order", tick.id, TRUE, v.size)>>)
    ELSE ExecuteOutcome(v.risk, "latency", OrderFailed("pending"),
                        <<OrderRequest(tick, ctx.side, v.size, ctx.price, ctx.stop_loss)>>,
                        <<GateEvent("validate_order", tick.id, v.approved, v.size),
                          GateEvent("submit_order", tick.id, TRUE, v.size)>>)

\* OrderHandler.execute up to the first suspension: the risk state after it, the result it
\* returns (status "result") or the order whose submit_order is suspended in the latency
\* delay (status "latency"), and the calls it made to the Risk Manager and the Ledger
Execute(tick, decision, account, positions, r, connected) ==
    IF decision.signal = "HOLD"
    THEN ExecuteOutcome(r, "result",
            [success |-> TRUE, filled_size |-> 0, avg_price |-> None, reason |-> "No action"],
            NoOrder, << >>)
    ELSE IF IsNone(decision.stop_loss)
    THEN ExecuteOutcome(r, "result", OrderFailed("Stop-loss required"), NoOrder, << >>)
    ELSE IF tick.spread > spread_limit
    THEN ExecuteOutcome(r, "result", OrderFailed("Spread too wide"), NoOrder, << >>)
    ELSE IF VolatilityTooHigh(tick)
    THEN ExecuteOutcome(r, "result", OrderFailed("Volatility too high"), NoOrder, << >>)
    ELSE Bind(OrderContext(tick, decision), LAMBDA ctx :
           IF ctx.side = "BUY" /\ ctx.stop_loss >= ctx.price
           THEN ExecuteOutcome(r, "result",
                   OrderFailed("Stop-loss must be below entry for BUY"), NoOrder, << >>)
           ELSE IF ctx.side = "SELL" /\ ctx.stop_loss <= ctx.price
           THEN ExecuteOutcome(r, "result",
                   OrderFailed("Stop-loss must be above entry for SELL"), NoOrder, << >>)
           ELSE SubmitApproved(tick, ctx, ValidateOrder(r, ctx, account, positions),
                               connected))

---------------------------------------------------------------------------
(* Trading Engine: AsyncTradingEngine (engine.py) *)

Activities == {"producer", "consumer", "monitor"}
Tasks == Activities \cup {"main"}

\* closes the feed can deliver (1995.0 and 2000.0)
MidPrices == {1995 * PriceScale, 2000 * PriceScale}
\* the stop distance the strategy leaves around the close (10.0)
StopOffset == 10 * PriceScale

\* what Strategy.get_signal may answer for a quote (the strategy is pluggable)
Decisions(tick) ==
    {[signal |-> "HOLD", stop_loss |-> None],
     [signal |-> "EXIT", stop_loss |-> None],
     [signal |-> "BUY", stop_loss |-> None],
     [signal |-> "BUY", stop_loss |-> Some(tick.close - StopOffset)],
     [signal |-> "SELL", stop_loss |-> Some(tick.close + StopOffset)]}

\* AsyncTradingEngine._map_strategy_decision
MapStrategyDecision(d) ==
    IF d.signal \notin {"BUY", "SELL", "HOLD"} THEN [d EXCEPT !.signal = "HOLD"] ELSE d

\* compute_backoff, mutant: the delay is not capped
ComputeBackoffUncapped(attempt, base, max_delay) == base * (2 ^ attempt)

\* compute_backoff (utils.py), in seconds
ComputeBackoff(attempt, base, max_delay) == Min(max_delay, base * (2 ^ attempt))

reconnect_base == 1
reconnect_max == 30

HistInit ==
    [yielded |-> << >>,      \* ids of the quotes price_stream yielded in this run
     enqueued |-> << >>,     \* ids of the quotes put into the queue
     handled |-> << >>,      \* ids of the quotes passed to _handle_tick
     gate |-> << >>,         \* calls of validate_order and submit_order for the last quote handled
     lastWriter |-> "none",  \* the task whose persist last replaced the canonical file
     written |-> EmptyText,  \* the text that persist call was given
     delays |-> << >>,       \* backoff delays slept in the current reconnect loop
     fed |-> 0,              \* quotes the feed has delivered since the first start
     loaded |-> << >>,       \* what load() returned to run()
     filled |-> FALSE,       \* an order has been filled in this run
     failed |-> {},          \* the tasks that ended with an exception in this run
     run |-> 0]              \* restarts so far

LocalInit ==
    [attempt |-> 0,
     pending |-> << >>,
     order |-> NoOrder,
     data |-> [t \in Tasks |-> EmptyText]]

PcInit == [t \in Tasks |-> IF t = "main" THEN "load" ELSE "idle"]

\* contents the state file may have when the process first starts
InitialFiles == {None, Some(TruncatedText), Some(ListText)}

NoCall == [op |-> "none"]

\* the state after construction, before run() (engine.py 30-43)
EngineInit ==
    /\ broker = BrokerInit
    /\ risk = RiskInit
    /\ file \in InitialFiles
    /\ tmp = None
    /\ lock = "free"
    /\ state = << >>
    /\ stateAlias = FALSE
    /\ queue = << >>
    /\ cancel_event = FALSE
    /\ pc = PcInit
    /\ local = LocalInit
    /\ sincePersist = 0
    /\ today = 0
    /\ hist = HistInit

Init ==
    /\ EngineInit
    /\ call = NoCall

\* StateManager._lock, mutant: persist does not take the lock
LockFreeAlways(l) == TRUE

\* asyncio.Lock.locked(), negated: the lock can be taken without waiting
LockFree(l) == l = "free"

\* persist(self._state) reaching the lock (state.py 34-36): taken at once when it is free
\* (the text is serialized and the temp file opened for writing), else the task waits
PersistEnter(t, text) ==
    IF LockFree(lock)
    THEN /\ lock' = t
         /\ tmp' = Some(EmptyText)
         /\ local' = [local EXCEPT !.data[t] = text,
                                   !.order = IF t = "consumer" THEN NoOrder ELSE @]
         /\ pc' = [pc EXCEPT ![t] = "p_write"]
    ELSE /\ pc' = [pc EXCEPT ![t] = "persist"]
         /\ local' = [local EXCEPT !.order = IF t = "consumer" THEN NoOrder ELSE @]
         /\ UNCHANGED <<lock, tmp>>

\* run(): state_manager.load() and the restore of the risk state (engine.py 46-48); on a
\* loaded value that is no dict, _state.get raises and run() ends with the error
MainLoad ==
    /\ pc["main"] = "load"
    /\ \E loaded \in {Load(file, today)} :
          /\ state' = loaded
          /\ IF IsDict(loaded)
             THEN /\ risk' = [daily_start_equity |-> loaded.daily_start_equity,
                              equity_peak |-> loaded.equity_peak]
                  /\ pc' = [pc EXCEPT !["main"] = "connect"]
             ELSE /\ risk' = risk
                  /\ pc' = [pc EXCEPT !["main"] = "crashed"]
          /\ hist' = [hist EXCEPT !.loaded = loaded]
    /\ UNCHANGED <<broker, file, tmp, lock, stateAlias, queue, cancel_event, local,
                   sincePersist, today, call>>

\* _connect_with_backoff: broker.connect() raises, the loop sleeps the backoff delay
MainConnectFail ==
    /\ pc["main"] = "connect"
    /\ local.attempt < MaxAttempts
    /\ local' = [local EXCEPT !.attempt = @ + 1]
    /\ hist' = [hist EXCEPT !.delays =
                   Append(@, ComputeBackoff(local.attempt, reconnect_base, reconnect_max))]
    /\ UNCHANGED <<broker, risk, file, tmp, lock, state, stateAlias, queue, cancel_event,
                   pc, sincePersist, today, call>>

\* _connect_with_backoff: broker.connect() succeeds; run() creates the three tasks and
\* sleeps for its runtime (engine.py 49-57)
MainConnect ==
    /\ pc["main"] = "connect"
    /\ broker' = [broker EXCEPT !.connected = TRUE]
    /\ pc' = [t \in Tasks |->
                CASE t = "main" -> "running"
                  [] t = "producer" -> "fetch"
                  [] t = "consumer" -> "get"
                  [] t = "monitor" -> "sleep"]
    /\ local' = [local EXCEPT !.attempt = 0]
    /\ hist' = [hist EXCEPT !.delays = << >>]
    /\ UNCHANGED <<risk, file, tmp, lock, state, stateAlias, queue, cancel_event,
                   sincePersist, today, call>>

\* stop(): the cancellation signal is set and every task is cancelled (engine.py 63-65)
MainStop ==
    /\ pc["main"] = "running"
    /\ cancel_event' = TRUE
    /\ pc' = [pc EXCEPT !["main"] = "gather"]
    /\ UNCHANGED <<broker, risk, file, tmp, lock, state, stateAlias, queue, local,
                   sincePersist, today, hist, call>>

\* stop(), mutant: the tasks' termination is not awaited
GatherReturnedAtOnce(p) == TRUE

\* asyncio.gather(*self._tasks, return_exceptions=True) has returned: every task is done
GatherReturned(p) == \A t \in Activities : p[t] = "done"

\* stop(): broker.close(), then the final persist (engine.py 66-68)
MainClose ==
    /\ pc["main"] = "gather"
    /\ GatherReturned(pc)
    /\ broker' = [broker EXCEPT !.connected = FALSE]
    /\ PersistEnter("main", Dumps(Snapshot(state, stateAlias, broker)))
    /\ UNCHANGED <<risk, file, state, stateAlias, queue, cancel_event,
                   sincePersist, today, hist, call>>

\* whether a task goes on from its suspension point, mutant: a task whose cancel() was
\* called still resumes normally
ResumesCancelled(t) == TRUE

\* whether a task goes on from its suspension point: stop() sets the signal and calls
\* cancel() on every task in one step (engine.py 63-65), and a cancelled task gets
\* CancelledError at the await it is suspended in instead of resuming
Resumes(t) == ~cancel_event

\* the points where a task is suspended, mutant: a cancellation does not reach a task
\* inside submit_order's latency delay
SuspendedOutsideLatency(t) ==
    pc[t] \in {"fetch", "put", "pollsleep", "get", "sleep", "persist"}

\* the points where a task is suspended and a cancellation reaches it; a task waiting for
\* the State Store's lock is cancelled there even when the lock has been released since
Suspended(t) ==
    pc[t] \in {"fetch", "put", "pollsleep", "get", "latency", "sleep", "persist"}

\* a cancelled task receives CancelledError where it is suspended, and ends; what it held
\* there (the quote of a suspended put, the order of a suspended submit_order) is gone
TaskCancelled(t) ==
    /\ cancel_event
    /\ Suspended(t)
    /\ pc' = [pc EXCEPT ![t] = "done"]
    /\ local' = [local EXCEPT !.pending = IF t = "producer" THEN << >> ELSE @,
                              !.order = IF t = "consumer" THEN NoOrder ELSE @]
    /\ UNCHANGED <<broker, risk, file, tmp, lock, state, stateAlias, queue, cancel_event,
                   sincePersist, today, hist, call>>

\* asyncio.Queue.get_nowait, mutant: the newest quote is taken first
QueueTakeNewest(q) == [tick |-> q[Len(q)], rest |-> SubSeq(q, 1, Len(q) - 1)]

\* asyncio.Queue.get_nowait on a non-empty queue: the oldest quote and what is left
QueueTake(q) == [tick |-> Head(q), rest |-> Tail(q)]

\* asyncio.Queue.full, mutant: the queue is unbounded
QueueFullNever(q) == FALSE

\* asyncio.Queue.full for the queue built in __init__ (engine.py 39)
QueueFull(q) == Len(q) >= QueueMaxsize

\* price_stream (broker.py 103-125) and the producer's put (engine.py 86-89): the fetch
\* returns a close; the quote is yielded and put, or the producer suspends on the full queue
FetchQuote(close) ==
    /\ pc["producer"] = "fetch"
    /\ Resumes("producer")
    /\ hist.fed < MaxTicks
    /\ \E tick \in {MakeTick(broker, symbols[1], close, Len(hist.yielded) + 1)} :
            /\ broker' = StreamMark(broker, symbols[1], close)
            /\ IF QueueFull(queue)
               THEN /\ queue' = queue
                    /\ local' = [local EXCEPT !.pending = <<tick>>]
                    /\ hist' = [hist EXCEPT !.yielded = Append(@, tick.id),
                                            !.fed = @ + 1]
                    /\ pc' = [pc EXCEPT !["producer"] = "put"]
               ELSE /\ queue' = Append(queue, tick)
                    /\ local' = local
                    /\ hist' = [hist EXCEPT !.yielded = Append(@, tick.id),
                                            !.enqueued = Append(@, tick.id),
                                            !.fed = @ + 1]
                    /\ pc' = [pc EXCEPT !["producer"] = "pollsleep"]
    /\ UNCHANGED <<risk, file, tmp, lock, state, stateAlias, cancel_event,
                   sincePersist, today>>

\* the producer's fetch with a close of the feed
ProducerFetch ==
    /\ \E close \in MidPrices : FetchQuote(close)
    /\ UNCHANGED call

\* price_stream (broker.py 126-128): the fetch raises; the error is logged inside
\* price_stream, which sleeps the poll interval and goes on
ProducerFetchError ==
    /\ pc["producer"] = "fetch"
    /\ Resumes("producer")
    /\ pc' = [pc EXCEPT !["producer"] = "pollsleep"]
    /\ UNCHANGED <<broker, risk, file, tmp, lock, state, stateAlias, queue, cancel_event,
                   local, sincePersist, today, hist, call>>

\* the producer's put resumes once the queue has room (engine.py 87)
ProducerPut ==
    /\ pc["producer"] = "put"
    /\ Resumes("producer")
    /\ ~QueueFull(queue)
    /\ queue' = Append(queue, local.pending[1])
    /\ local' = [local EXCEPT !.pending = << >>]
    /\ hist' = [hist EXCEPT !.enqueued = Append(@, local.pending[1].id)]
    /\ pc' = [pc EXCEPT !["producer"] = "pollsleep"]
    /\ UNCHANGED <<broker, risk, file, tmp, lock, state, stateAlias, cancel_event,
                   sincePersist, today, call>>

\* price_stream after its poll sleep: the next fetch while connected (broker.py 103-105);
\* disconnected, the stream ends and the producer's loop starts it again without suspending
ProducerPoll ==
    /\ pc["producer"] = "pollsleep"
    /\ Resumes("producer")
    /\ pc' = [pc EXCEPT !["producer"] = IF broker.connected THEN "fetch" ELSE "spin"]
    /\ UNCHANGED <<broker, risk, file, tmp, lock, state, stateAlias, queue, cancel_event,
                   local, sincePersist, today, hist, call>>

\* the risk state _handle_tick leaves before the strategy is asked (engine.py 101-105)
RolloverRisk(r, st, account, day) ==
    IF st.trading_day # IsoFormat(day)
    THEN [daily_start_equity |-> Some(account.equity), equity_peak |-> Some(account.equity)]
    ELSE r

\* _state after _handle_tick's update (engine.py 102-110)
UpdateState(st, account, positions, r, day) ==
    [st EXCEPT !.trading_day = IsoFormat(day),
               !.balance = account.balance,
               !.equity = account.equity,
               !.margin_used = account.margin_used,
               !.unrealized = account.unrealized,
               !.positions = positions,
               !.daily_start_equity = r.daily_start_equity,
               !.equity_peak = r.equity_peak]

\* _handle_tick from the strategy's answer on (engine.py 112-121): HOLD returns at once,
\* any other decision goes through execute
HandleDecision(tick, answer, account, positions, r, connected) ==
    IF MapStrategyDecision(answer).signal = "HOLD"
    THEN ExecuteOutcome(r, "result", OrderFailed("HOLD"), NoOrder, << >>)
    ELSE Execute(tick, MapStrategyDecision(answer), account, positions, r, connected)

\* where the consumer is after the first part of _handle_tick, mutant: a checkpoint is
\* written whatever the result
HandledPcCheckpoints(status) == IF status = "latency" THEN "latency" ELSE "persist"

\* where the consumer is after the first part of _handle_tick (engine.py 113-123):
\* suspended in submit_order's latency delay, or back at the queue when execute returned
\* without a suspension (no such result is a success that needs a checkpoint)
HandledPc(status) == IF status = "latency" THEN "latency" ELSE "get"

\* the consumer takes the next quote (engine.py 96) and runs _handle_tick (99-123) with the
\* strategy's answer up to its first suspension: the order-latency delay, or the end of the
\* handling
HandleTick(answer) ==
    /\ pc["consumer"] = "get"
    /\ Resumes("consumer")
    /\ queue # << >>
    /\ \E taken \in {QueueTake(queue)} :
       \E b1 \in {AccountRefresh(broker)} :
       \E account \in {AccountInfo(b1)} :
       \E r1 \in {RolloverRisk(risk, state, account, today)} :
       \E e \in {HandleDecision(taken.tick, answer, account, b1.positions, r1,
                                b1.connected)} :
          /\ queue' = taken.rest
          /\ broker' = b1
          /\ state' = UpdateState(state, account, b1.positions, r1, today)
          /\ stateAlias' = TRUE
          /\ risk' = e.risk
          /\ local' = [local EXCEPT !.order = e.order]
          /\ hist' = [hist EXCEPT !.handled = Append(@, taken.tick.id),
                                  !.gate = e.gate]
          /\ pc' = [pc EXCEPT !["consumer"] = HandledPc(e.status)]
    /\ UNCHANGED <<file, tmp, lock, cancel_event, sincePersist, today>>

\* the consumer handles the next quote with an answer of the strategy
ConsumerHandle ==
    /\ queue # << >>
    /\ \E answer \in Decisions(QueueTake(queue).tick) : HandleTick(answer)
    /\ UNCHANGED call

\* submit_order after the latency delay (broker.py 151-202): the fill; the order succeeded,
\* so _handle_tick checkpoints (engine.py 122-123)
ConsumerFill ==
    /\ pc["consumer"] = "latency"
    /\ Resumes("consumer")
    /\ \E known \in {LastPriceGet(broker.last_prices, local.order[1].symbol)} :
       \E mid \in IF IsNone(known) THEN MidPrices ELSE {Val(known)} :
       \E f \in {ApplyFill(broker, local.order[1], mid)} :
          /\ broker' = f.broker
          /\ PersistEnter("consumer", Dumps(Snapshot(state, stateAlias, f.broker)))
    /\ hist' = [hist EXCEPT !.filled = TRUE]
    /\ UNCHANGED <<risk, file, state, stateAlias, queue, cancel_event,
                   sincePersist, today, call>>

\* time.time() - self._last_persist > 5 (engine.py 140)
CheckpointDue(elapsed) == elapsed > CheckpointInterval

\* one iteration of _health_monitor (engine.py 133-143) up to its suspension: the forced
\* checkpoint when one is due, else the 1.0 s sleep
MonitorStep ==
    /\ pc["monitor"] = "sleep"
    /\ Resumes("monitor")
    /\ IF ~broker.connected
       THEN /\ pc' = [pc EXCEPT !["monitor"] = "reconnect"]
            /\ UNCHANGED <<lock, tmp, local>>
       ELSE IF CheckpointDue(sincePersist)
       THEN PersistEnter("monitor", Dumps(Snapshot(state, stateAlias, broker)))
       ELSE UNCHANGED <<pc, lock, tmp, local>>
    /\ UNCHANGED <<broker, risk, file, state, stateAlias, queue, cancel_event,
                   sincePersist, today, hist>>

MonitorIterate ==
    /\ MonitorStep
    /\ UNCHANGED call

\* a task waiting for the State Store's lock gets it (state.py 34)
PersistBegin(t) ==
    /\ pc[t] = "persist"
    /\ t = "main" \/ Resumes(t)
    /\ LockFree(lock)
    /\ PersistEnter(t, Dumps(Snapshot(state, stateAlias, broker)))
    /\ UNCHANGED <<broker, risk, file, state, stateAlias, queue, cancel_event,
                   sincePersist, today, hist, call>>

\* temp_path.write_text(...): the serialized text is in the temp file (state.py 36)
PersistWrite(t) ==
    /\ pc[t] = "p_write"
    /\ tmp' = Some(local.data[t])
    /\ pc' = [pc EXCEPT ![t] = "p_replace"]
    /\ UNCHANGED <<broker, risk, file, lock, state, stateAlias, queue, cancel_event, local,
                   sincePersist, today, hist, call>>

\* where a task goes on after its persist has returned
AfterPersist(t) ==
    CASE t = "main" -> "stopped"
      [] t = "consumer" -> IF cancel_event THEN "done" ELSE "get"
      [] t = "monitor" -> IF cancel_event THEN "done" ELSE "sleep"

\* temp_path.replace(self.path) and the release of the lock (state.py 37); the monitor
\* then records the time of its checkpoint (engine.py 142)
Replace(t) ==
    /\ pc[t] = "p_replace"
    /\ file' = tmp
    /\ tmp' = None
    /\ lock' = IF lock = t THEN "free" ELSE lock
    /\ hist' = [hist EXCEPT !.lastWriter = t, !.written = local.data[t]]
    /\ local' = [local EXCEPT !.data[t] = EmptyText]
    /\ pc' = [pc EXCEPT ![t] = AfterPersist(t)]
    /\ sincePersist' = IF t = "monitor" THEN 0 ELSE sincePersist
    /\ UNCHANGED <<broker, risk, state, stateAlias, queue, cancel_event, today>>

PersistReplace(t) ==
    /\ Replace(t)
    /\ UNCHANGED call

Running == pc["main"] \notin {"stopped", "crashed"}

\* ClockStep seconds of wall-clock time pass
ClockAdvance ==
    /\ Running
    /\ sincePersist' = Min(sincePersist + ClockStep, 2 * CheckpointInterval)
    /\ UNCHANGED <<broker, risk, file, tmp, lock, state, stateAlias, queue, cancel_event,
                   pc, local, today, hist>>

ClockTick ==
    /\ sincePersist < 2 * CheckpointInterval
    /\ ClockAdvance
    /\ UNCHANGED call

\* midnight: datetime.date.today() changes
DayRollover ==
    /\ Running
    /\ today < MaxDay
    /\ today' = today + 1
    /\ UNCHANGED <<broker, risk, file, tmp, lock, state, stateAlias, queue, cancel_event,
                   pc, local, sincePersist, hist, call>>

\* the process is started again on the state file the last run left (main.py 13-33)
Restart ==
    /\ pc["main"] \in {"stopped", "crashed"}
    /\ hist.run < MaxRestarts
    /\ broker' = BrokerInit
    /\ risk' = RiskInit
    /\ state' = << >>
    /\ stateAlias' = FALSE
    /\ queue' = << >>
    /\ cancel_event' = FALSE
    /\ pc' = PcInit
    /\ local' = LocalInit
    /\ sincePersist' = 0
    /\ hist' = [HistInit EXCEPT !.run = hist.run + 1, !.fed = hist.fed]
    /\ UNCHANGED <<file, tmp, lock, today, call>>

Next ==
    \/ MainLoad
    \/ MainConnectFail
    \/ MainConnect
    \/ MainStop
    \/ MainClose
    \/ \E t \in Activities : TaskCancelled(t)
    \/ ProducerFetch
    \/ ProducerFetchError
    \/ ProducerPut
    \/ ProducerPoll
    \/ ConsumerHandle
    \/ ConsumerFill
    \/ MonitorIterate
    \/ \E t \in Tasks : PersistBegin(t)
    \/ \E t \in Tasks : PersistWrite(t)
    \/ \E t \in Tasks : PersistReplace(t)
    \/ ClockTick
    \/ DayRollover

\* one run of the process
Spec == Init /\ [][Next]_vars

NextRestart == Next \/ Restart

\* runs of the process one after the other on the same state file
SpecRestart == Init /\ [][NextRestart]_vars

---------------------------------------------------------------------------
(* Properties of the pipeline's gate *)

SubmitEvents == {i \in 1..Len(hist.gate) : hist.gate[i].op = "submit_order"}

\* C1: every submit_order call is immediately preceded, for the same quote, by a
\* validate_order call that approved a size, and the order submitted (and the order then
\* filled) carries exactly that size; when validate_order or an earlier check of the
\* pipeline rejects, submit_order is not called for that quote
RiskManagerSoleGate ==
    /\ \A i \in SubmitEvents :
          /\ i > 1
          /\ hist.gate[i - 1].op = "validate_order"
          /\ hist.gate[i - 1].id = hist.gate[i].id
          /\ hist.gate[i - 1].approved
          /\ hist.gate[i - 1].size > 0
          /\ hist.gate[i].size = hist.gate[i - 1].size
    /\ \A i \in 1..Len(hist.gate) :
          (hist.gate[i].op = "validate_order" /\ ~hist.gate[i].approved) => i = Len(hist.gate)
    /\ local.order # NoOrder =>
          /\ SubmitEvents # {}
          /\ \A i \in SubmitEvents : /\ hist.gate[i].id = local.order[1].id
                                     /\ hist.gate[i].size = local.order[1].size

\* an approved order was submitted with the approved size and has been filled
RiskManagerSoleGateWitness ==
    /\ SubmitEvents # {}
    /\ pc["consumer"] = "p_write"
    /\ \E s \in DOMAIN broker.positions :
          \E i \in SubmitEvents : Abs(broker.positions[s].size) = hist.gate[i - 1].size

\* the Risk Manager has just rejected an order for a quote: nothing was submitted
RiskRejectionReached ==
    /\ Len(hist.gate) = 1
    /\ hist.gate[1].op = "validate_order"
    /\ ~hist.gate[1].approved

---------------------------------------------------------------------------
(* The Risk Manager on its own: validate_order called with any equity, price and stop,
   and the day rollover done by _handle_tick (engine.py 101-105) *)

\* account equities validate_order is called with (27000.0 .. 31000.0, an account that
\* has lost everything, and one that owes 1000.0)
RiskEquities == {-1000 * PriceScale, 0, 27000 * PriceScale, 29000 * PriceScale, 29400 * PriceScale,
                 30000 * PriceScale, 30600 * PriceScale, 31000 * PriceScale}
\* entry prices and stops of the orders validated: a stop below, at and above the price
RiskPrices == {2000 * PriceScale}
RiskStops == {1990 * PriceScale, 2000 * PriceScale - 1, 2000 * PriceScale,
              2010 * PriceScale}
\* the positions the account holds when validate_order is called: none, 14 of the order's
\* symbol, or 20 of another symbol
RiskBooks ==
    {NoPositions,
     [s \in {symbols[1]} |-> [size |-> 14, entry |-> 2000 * PriceScale, pnl |-> 0]],
     [s \in {"EURUSD"} |-> [size |-> 20, entry |-> 2000 * PriceScale, pnl |-> 0]]}

\* the account dict of a Ledger with that equity holding those positions, marked at their
\* entry price (broker.py 130-143)
RiskAccount(equity, book) ==
    [balance |-> equity, equity |-> equity,
     margin_used |-> SumPositions(book, LAMBDA p : PositionMargin(p.entry, p)),
     unrealized |-> 0]

DailyLossReason == "Daily loss limit reached; trading halted"

\* the variables the engine owns, at rest
EngineAtRest ==
    /\ broker = BrokerInit
    /\ file = None
    /\ tmp = None
    /\ lock = "free"
    /\ state = << >>
    /\ stateAlias = FALSE
    /\ queue = << >>
    /\ cancel_event = FALSE
    /\ pc = PcInit
    /\ local = LocalInit
    /\ sincePersist = 0
    /\ hist = HistInit

\* the last call on the Risk Manager: its arguments, its outcome v, the risk state it
\* found, and whether the daily-loss condition has been observed since the last rollover
RiskCall(op, equity, price, stop, v, observed, before, book) ==
    [op |-> op, equity |-> equity, price |-> price, stop |-> stop, approved |-> v.approved,
     size |-> v.size, reason |-> v.reason, observed |-> observed, before |-> before,
     book |-> book]

\* RiskManager.__init__ (risk.py 23-26); no call made yet
InitRisk ==
    /\ EngineAtRest
    /\ risk = RiskInit
    /\ today = 0
    /\ call = RiskCall("none", 0, 0, 0, [approved |-> FALSE, size |-> 0, reason |-> "ok"],
                       FALSE, RiskInit, NoPositions)

\* a validate_order call (risk.py 71-86) with an account of the given equity; observed
\* records that this or an earlier call since the last rollover saw
\* equity <= daily_start_equity * (1 - max_daily_loss)
RiskValidate ==
    \E equity \in RiskEquities, price \in RiskPrices, stop \in RiskStops :
    \E book \in RiskBooks :
    \E v \in {ValidateOrder(risk,
                 [symbol |-> symbols[1], side |-> IF stop < price THEN "BUY" ELSE "SELL",
                  price |-> price, stop_loss |-> stop],
                 RiskAccount(equity, book), book)} :
        /\ risk' = v.risk
        /\ call' = RiskCall("validate_order", equity, price, stop, v,
                             \/ call.observed
                             \/ AtOrBelowLoss(equity, Val(v.risk.daily_start_equity),
                                              max_daily_loss),
                             risk, book)
        /\ UNCHANGED <<broker, file, tmp, lock, state, stateAlias, queue, cancel_event,
                       pc, local, sincePersist, today, hist>>

\* the calendar-day rollover: _handle_tick resets the daily start equity and the peak to
\* the account's equity (engine.py 101-105)
RiskRollover ==
    /\ today < MaxDay
    /\ \E equity \in RiskEquities :
          /\ risk' = RolloverRisk(risk, [trading_day |-> IsoFormat(today)],
                                  [equity |-> equity], today + 1)
          /\ call' = RiskCall("rollover", equity, 0, 0,
                               [approved |-> FALSE, size |-> 0, reason |-> "ok"], FALSE, risk,
                               NoPositions)
    /\ today' = today + 1
    /\ UNCHANGED <<broker, file, tmp, lock, state, stateAlias, queue, cancel_event,
                   pc, local, sincePersist, hist>>

NextRisk == RiskValidate \/ RiskRollover

SpecRisk == InitRisk /\ [][NextRisk]_vars

\* C2: the daily-loss breaker latches: once a validate_order call has observed
\* equity <= daily_start_equity * (1 - max_daily_loss), every later validate_order call
\* before the next day rollover is rejected with the daily-loss reason, whatever its equity
DailyLossBreakerLatches ==
    (call.op = "validate_order" /\ call.observed) => call.reason = DailyLossReason

\* the breaker has tripped on a call, which is rejected with the daily-loss reason
DailyLossBreakerTrips ==
    /\ call.op = "validate_order"
    /\ call.observed
    /\ call.reason = DailyLossReason

---------------------------------------------------------------------------
(* Properties of the Ledger *)

\* the mid of the Ledger's last mark (0 before any price is known)
LastMarkMid == IF IsNone(FirstLastPrice(broker.last_prices)) THEN 0
               ELSE Val(FirstLastPrice(broker.last_prices))

\* C3: after every Ledger operation that mutates account state (a fill, price_stream's
\* mark-to-market, get_account_info), equity equals balance plus the sum of the positions'
\* pnl fields, and margin_used equals the sum of |size * mid| / leverage_limit over the
\* positions for the mid of that mark
LedgerEquityIdentity ==
    /\ broker.equity = broker.balance + SumPositions(broker.positions, LAMBDA p : p.pnl)
    /\ broker.margin_used =
          SumPositions(broker.positions, LAMBDA p : PositionMargin(LastMarkMid, p))
    /\ \A s \in DOMAIN broker.positions :
          broker.positions[s].pnl = PositionPnl(LastMarkMid, broker.positions[s])

\* a position opened by a fill has been marked at a later, different close: equity has left
\* balance and margin is in use
LedgerEquityIdentityWitness ==
    /\ broker.positions # NoPositions
    /\ broker.equity > broker.balance
    /\ broker.margin_used > 0
    /\ Len(hist.yielded) = 2

---------------------------------------------------------------------------
(* Properties of startup and of the State Store's contract *)

\* the snapshot the canonical state file holds, when it holds one
FileSnapshot == ObjToState(Loads(Val(file)).val)

\* run() has loaded a snapshot that an earlier run of the process wrote
LoadedEarlierSnapshot ==
    /\ hist.run > 0
    /\ pc["main"] \notin {"load", "crashed"}
    /\ IsDict(hist.loaded)

\* C4: the persisted snapshot is the source of truth reloaded at startup: once run() has
\* loaded a snapshot written by an earlier run, the Ledger's balance and open positions and
\* the Risk Manager's daily-start equity and peak equal the snapshot's, so a checkpoint
\* written after the restart does not replace the persisted balance and positions unless a
\* fill caused it
SnapshotRestoredAtStartup ==
    LoadedEarlierSnapshot =>
       /\ pc["main"] = "connect" =>
             /\ risk.daily_start_equity = hist.loaded.daily_start_equity
             /\ risk.equity_peak = hist.loaded.equity_peak
       /\ ~hist.filled =>
             /\ broker.balance = hist.loaded.balance
             /\ broker.positions = hist.loaded.positions
       /\ (~hist.filled /\ hist.lastWriter # "none") =>
             /\ FileSnapshot.balance = hist.loaded.balance
             /\ FileSnapshot.positions = hist.loaded.positions

\* after a restart on a snapshot with an open position, with no fill since, a checkpoint
\* has put the initial balance and an empty position map in the state file
SnapshotLostAfterRestart ==
    /\ LoadedEarlierSnapshot
    /\ hist.loaded.positions # NoPositions
    /\ ~hist.filled
    /\ hist.lastWriter # "none"
    /\ FileSnapshot.positions = NoPositions
    /\ FileSnapshot.balance = initial_balance

---------------------------------------------------------------------------
(* Properties of the price queue *)

QueueIds == [i \in 1..Len(queue) |-> queue[i].id]
PendingIds == [i \in 1..Len(local.pending) |-> local.pending[i].id]

Handling == pc["consumer"] \in {"latency", "persist", "p_write", "p_replace"}

\* quotes are handled in production order
HandledInOrder ==
    /\ Len(hist.handled) <= Len(hist.enqueued)
    /\ hist.handled = SubSeq(hist.enqueued, 1, Len(hist.handled))
    /\ \A i, j \in 1..Len(hist.handled) : hist.handled[i] = hist.handled[j] => i = j

\* the consumer passes a quote to _handle_tick only when no handling is in progress, and
\* it is the oldest quote of the queue
HandledOneAtATime ==
    hist.handled' # hist.handled =>
       /\ ~Handling
       /\ queue # << >>
       /\ hist.handled' = Append(hist.handled, Head(queue).id)
       /\ queue' = Tail(queue)

\* C6: quotes are handled strictly in production order: the sequence of quotes passed to
\* _handle_tick is always a prefix of the sequence enqueued, none handled twice, skipped or
\* reordered, and the next quote is not taken while the previous one is being handled
FifoHandling == []HandledInOrder /\ [][HandledOneAtATime]_vars

\* two quotes were waiting in the queue and both have been handled, the second one while
\* a third was already enqueued
FifoHandlingWitness ==
    /\ Len(hist.handled) = 2
    /\ Len(hist.enqueued) = 3
    /\ Handling

---------------------------------------------------------------------------
(* Properties of persist under concurrent checkpoints *)

\* the tasks inside the State Store's critical section (temp file written, then replaced)
InPersist == {t \in Tasks : pc[t] \in {"p_write", "p_replace"}}

\* the text is a whole JSON object, from its opening to its closing brace, with all the
\* keys of a snapshot
CompleteText(text) ==
    /\ Len(text) >= 18
    /\ text[1].t = "{"
    /\ text[Len(text)].t = "}"
    /\ text[Len(text) - 1].t = "str"

\* C7: persist is torn-write free under concurrent checkpoints by the consumer, the health
\* monitor and stop(): the canonical state file holds what it held at startup or exactly the
\* complete snapshot text passed to the persist call that last replaced it, never a partial
\* or mixed write, and two critical sections of the State Store never overlap
PersistTornWriteFree ==
    /\ hist.lastWriter = "none" => (hist.run > 0 \/ file \in InitialFiles)
    /\ hist.lastWriter # "none" =>
          /\ file = Some(hist.written)
          /\ CompleteText(hist.written)
    /\ Cardinality(InPersist) <= 1
    /\ \A t \in InPersist : lock = t
    /\ pc["main"] = "load" => InPersist = {}

\* a checkpoint is being written while another task waits for the State Store's lock, and
\* an earlier checkpoint has already replaced the file
PersistTornWriteFreeWitness ==
    /\ InPersist # {}
    /\ \E t \in Tasks : pc[t] = "persist"
    /\ hist.lastWriter # "none"

---------------------------------------------------------------------------
(* Properties of stop() *)

\* stop() has closed the Ledger connection (engine.py 67)
LedgerClosed == pc["main"] \in {"persist", "p_write", "p_replace", "stopped"}

\* the order of stop()'s steps, read off a state
StopOrderState ==
    /\ pc["main"] = "gather" => cancel_event
    /\ LedgerClosed =>
          /\ cancel_event
          /\ \A t \in Activities : pc[t] = "done"
          /\ ~broker.connected
    /\ (cancel_event /\ ~broker.connected) => LedgerClosed
    /\ pc["main"] = "stopped" =>
          /\ hist.lastWriter = "main"
          /\ file = Some(hist.written)
          /\ tmp = None

\* once the Ledger is closed only stop() itself moves: no activity takes a step, and
\* nothing but the final checkpoint touches the state file
StopOrderStep ==
    LedgerClosed =>
       /\ \A t \in Activities : pc'[t] = pc[t]
       /\ UNCHANGED <<broker, risk, queue, state>>
       /\ file' # file => (pc["main"] = "p_replace" /\ pc'["main"] = "stopped")

\* C10: stop() sets the cancellation signal, then all three activities are cancelled and
\* have terminated, then the Ledger connection is closed, then the final checkpoint is
\* written; the final checkpoint is the last write to the state file and no activity runs
\* a step after the Ledger is closed
StopOrder == []StopOrderState /\ [][StopOrderStep]_vars

\* stop() has finished after cancelling a consumer that had filled an order and a
\* monitor that had checkpointed
StopOrderWitness ==
    /\ pc["main"] = "stopped"
    /\ hist.filled
    /\ Len(hist.handled) >= 2
    /\ sincePersist = 0
    /\ Len(hist.yielded) = MaxTicks

---------------------------------------------------------------------------
(* The State Store on its own: persist and load called on any snapshot *)

\* positions, account values and risk values of the snapshots persisted
StoreSizes == {-14, 14}
StoreEntries == {2000 * PriceScale}
StorePnls == {-70 * PriceScale, 0, 70 * PriceScale}
StorePositions ==
    {NoPositions} \cup
    {[s \in {symbols[1]} |-> [size |-> z, entry |-> n, pnl |-> q]] :
        z \in StoreSizes, n \in StoreEntries, q \in StorePnls}
StoreBalances == {29930 * PriceScale, initial_balance}

StoreSnapshots ==
    {[positions |-> p,
      equity |-> b + SumPositions(p, LAMBDA x : x.pnl),
      balance |-> b,
      unrealized |-> SumPositions(p, LAMBDA x : x.pnl),
      margin_used |-> SumPositions(p, LAMBDA x : PositionMargin(2000 * PriceScale, x)),
      daily_start_equity |-> d,
      equity_peak |-> d,
      trading_day |-> IsoFormat(day)] :
        p \in StorePositions, b \in StoreBalances, d \in {None, Some(initial_balance)},
        day \in 0..MaxDay}

NoStoreCall == [op |-> "none", snapshot |-> << >>, result |-> << >>]

\* StateManager.__init__ (state.py 16-20): no file yet, no call made; the engine holds any
\* snapshot
InitStore ==
    /\ broker = BrokerInit
    /\ risk = RiskInit
    /\ file = None
    /\ tmp = None
    /\ lock = "free"
    /\ state \in StoreSnapshots
    /\ stateAlias = FALSE
    /\ queue = << >>
    /\ cancel_event = FALSE
    /\ pc = PcInit
    /\ local = LocalInit
    /\ sincePersist = 0
    /\ today = 0
    /\ hist = HistInit
    /\ call = NoStoreCall

\* persist(state), uncontended (state.py 33-37): the text is written to the temp file,
\* which replaces the canonical file
StorePersist ==
    /\ file' = Some(Dumps(state))
    /\ call' = [op |-> "persist", snapshot |-> state, result |-> << >>]
    /\ UNCHANGED <<broker, risk, tmp, lock, state, stateAlias, queue, cancel_event, pc,
                   local, sincePersist, today, hist>>

\* load() (state.py 22-31) after some persist
StoreLoad ==
    /\ call.op # "none"
    /\ call' = [op |-> "load", snapshot |-> call.snapshot, result |-> Load(file, today)]
    /\ UNCHANGED <<broker, risk, file, tmp, lock, state, stateAlias, queue, cancel_event,
                   pc, local, sincePersist, today, hist>>

\* the engine's state dict changes between checkpoints
StoreUpdate ==
    /\ state' \in StoreSnapshots \ {state}
    /\ UNCHANGED <<broker, risk, file, tmp, lock, stateAlias, queue, cancel_event, pc,
                   local, sincePersist, today, hist, call>>

NextStore == StorePersist \/ StoreLoad \/ StoreUpdate

SpecStore == InitStore /\ [][NextStore]_vars

\* C8: round trip of the State Store: persist(s) followed by load() with no persist in
\* between returns a snapshot equal to s
PersistLoadRoundTrip == call.op = "load" => call.result = call.snapshot

\* a snapshot with a short position, a negative pnl and no risk state has been persisted
\* and loaded back
PersistLoadRoundTripWitness ==
    /\ call.op = "load"
    /\ call.snapshot.positions # NoPositions
    /\ call.snapshot.unrealized < 0
    /\ \E s \in DOMAIN call.snapshot.positions : call.snapshot.positions[s].size < 0
    /\ IsNone(call.snapshot.daily_start_equity)
    /\ call.snapshot # state

---------------------------------------------------------------------------
(* Properties of load() at startup *)

\* C9: load() never fails: when the state file is absent, or holds content that is not a
\* valid persisted snapshot (truncated, unparseable, or parseable but not a snapshot
\* object), load() returns the default snapshot and engine startup proceeds without error
LoadNeverFails ==
    (hist.run = 0 /\ pc["main"] # "load") =>
       /\ pc["main"] # "crashed"
       /\ \E day \in 0..MaxDay : hist.loaded = DefaultState(day)

\* a truncated state file was found at startup: load() returned the default snapshot and
\* run() went on to connect
LoadDefaultOnCorruptFile ==
    /\ hist.run = 0
    /\ pc["main"] = "connect"
    /\ file = Some(TruncatedText)
    /\ hist.loaded = DefaultState(today)
    /\ risk.daily_start_equity = Some(initial_balance)

---------------------------------------------------------------------------
(* Properties of the producer on a feed error *)

\* a quote fetch has just failed in the producer: it was fetching and yielded nothing
FeedErrorStep ==
    /\ pc["producer"] = "fetch"
    /\ pc'["producer"] # "fetch"
    /\ hist'.yielded = hist.yielded
    /\ ~cancel_event'

\* the producer is in _connect_with_backoff (engine.py 92)
ProducerReconnecting == pc["producer"] = "reconnect"

\* C11: a feed error in the producer (a quote fetch that fails while the engine runs)
\* triggers the engine's reconnect-with-backoff and does not terminate the producer
FeedErrorTriggersReconnect == [][FeedErrorStep => ProducerReconnecting']_vars

---------------------------------------------------------------------------
(* Failures inside the tasks *)

\* the task's coroutine ends with the exception: nothing around it catches
\* (_price_consumer, engine.py 94-97; _health_monitor, engine.py 133-143)
TaskRaised(p, h, t) == [pc |-> [p EXCEPT ![t] = "done"],
                        hist |-> [h EXCEPT !.failed = @ \cup {t}]]

\* strategy.get_signal raises while the consumer handles a quote (engine.py 112): the
\* quote is taken and the account and snapshot updates before the call are done
ConsumerHandleRaises ==
    /\ pc["consumer"] = "get"
    /\ ~cancel_event
    /\ queue # << >>
    /\ \E taken \in {QueueTake(queue)} :
       \E b1 \in {AccountRefresh(broker)} :
       \E account \in {AccountInfo(b1)} :
       \E r1 \in {RolloverRisk(risk, state, account, today)} :
       \E ended \in {TaskRaised(pc, [hist EXCEPT !.handled = Append(@, taken.tick.id),
                                                 !.gate = << >>], "consumer")} :
          /\ queue' = taken.rest
          /\ broker' = b1
          /\ state' = UpdateState(state, account, b1.positions, r1, today)
          /\ stateAlias' = TRUE
          /\ risk' = r1
          /\ pc' = ended.pc
          /\ hist' = ended.hist
    /\ UNCHANGED <<file, tmp, lock, cancel_event, local, sincePersist, today, call>>

\* temp_path.write_text raises OSError inside a task's persist (state.py 36): the lock is
\* released on the way out and the canonical file is not replaced
PersistRaises(t) ==
    /\ pc[t] = "p_write"
    /\ ~cancel_event
    /\ lock' = IF lock = t THEN "free" ELSE lock
    /\ local' = [local EXCEPT !.data[t] = EmptyText]
    /\ \E ended \in {TaskRaised(pc, hist, t)} :
          /\ pc' = ended.pc
          /\ hist' = ended.hist
    /\ UNCHANGED <<broker, risk, file, tmp, state, stateAlias, queue, cancel_event,
                   sincePersist, today, call>>

NextFailure ==
    \/ Next
    \/ ConsumerHandleRaises
    \/ \E t \in {"consumer", "monitor"} : PersistRaises(t)

\* one run of the process in which the strategy and the checkpoint writes can raise
SpecFailure == Init /\ [][NextFailure]_vars

\* C12: a failure inside one activity is isolated: after handling one quote failed the
\* consumer still handles the following quotes, after a checkpoint of the monitor failed
\* the monitor goes on, and the other activities keep running
FailuresIsolated == ~cancel_event => \A t \in hist.failed : pc[t] # "done"

\* the consumer has failed on the first quote, the engine runs on, and the quotes the
\* producer has put since then fill the queue, where nothing will take them
ConsumerLostOthersRun ==
    /\ hist.failed = {"consumer"}
    /\ ~cancel_event
    /\ pc["consumer"] = "done"
    /\ pc["monitor"] # "done"
    /\ pc["producer"] # "done"
    /\ Len(hist.handled) = 1
    /\ Len(queue) = QueueMaxsize

---------------------------------------------------------------------------
(* The Position Ledger driven on its own: PaperBrokerClient's operations in any order *)

\* mids the feed delivers: 1999.85, 2000.00 and 2010.15
LedgerMids == {1999 * PriceScale + 17, 2000 * PriceScale, 2010 * PriceScale + 3}
LedgerSizes == {5, 10, 15}

\* an OrderRequest as submit_order reads it (symbol, side, size)
LedgerOrder(side, size) ==
    [id |-> 0, symbol |-> symbols[1], side |-> side, size |-> size, price |-> 0,
     stop_loss |-> 0]

SignedSize(order) == IF order.side = "BUY" THEN order.size ELSE -order.size

\* the last operation on the Ledger; for submit_order the Ledger before the call, the order
\* and the outcome; fills lists the orders filled since construction as
\* <<signed size, fill price>>
NoLedgerCall ==
    [op |-> "none", before |-> BrokerInit, order |-> NoOrder, result |-> OrderFailed("none"),
     raised |-> FALSE, fills |-> << >>]

InitLedger ==
    /\ EngineAtRest
    /\ risk = RiskInit
    /\ today = 0
    /\ call = NoLedgerCall

LedgerFrame == UNCHANGED <<risk, file, tmp, lock, state, stateAlias, queue, cancel_event, pc,
                           local, sincePersist, today, hist>>

\* connect() (broker.py 68-72)
LedgerConnect ==
    /\ ~broker.connected
    /\ broker' = [broker EXCEPT !.connected = TRUE]
    /\ call' = [call EXCEPT !.op = "connect", !.order = NoOrder, !.raised = FALSE]
    /\ LedgerFrame

\* close() (broker.py 74-76)
LedgerClose ==
    /\ broker.connected
    /\ broker' = [broker EXCEPT !.connected = FALSE]
    /\ call' = [call EXCEPT !.op = "close", !.order = NoOrder, !.raised = FALSE]
    /\ LedgerFrame

\* price_stream fetches a close and marks the positions (broker.py 103-113)
LedgerQuote ==
    /\ broker.connected
    /\ \E close \in LedgerMids :
          broker' = StreamMark(broker, symbols[1], close)
    /\ call' = [call EXCEPT !.op = "price_stream", !.order = NoOrder, !.raised = FALSE]
    /\ LedgerFrame

\* submit_order on a Ledger that is not connected (broker.py 146-147)
LedgerSubmitDisconnected ==
    /\ ~broker.connected
    /\ \E side \in {"BUY", "SELL"} :
       \E size \in LedgerSizes :
          call' = [call EXCEPT !.op = "submit_order", !.before = broker,
                               !.order = Some(LedgerOrder(side, size)),
                               !.result = OrderFailed("Disconnected"),
                               !.raised = FALSE]
    /\ UNCHANGED broker
    /\ LedgerFrame

\* submit_order on a connected Ledger that knows no price of the symbol, when the fetch of
\* one raises (broker.py 151-153, 78-81): the exception leaves submit_order
LedgerSubmitFetchRaises ==
    /\ broker.connected
    /\ IsNone(LastPriceGet(broker.last_prices, symbols[1]))
    /\ \E side \in {"BUY", "SELL"} :
       \E size \in LedgerSizes :
          call' = [call EXCEPT !.op = "submit_order", !.before = broker,
                               !.order = Some(LedgerOrder(side, size)),
                               !.result = OrderFailed("none"),
                               !.raised = TRUE]
    /\ UNCHANGED broker
    /\ LedgerFrame

\* submit_order on a connected Ledger (broker.py 149-202): the fill at the last known mid,
\* or at the close it fetches when it knows none
LedgerSubmit ==
    /\ broker.connected
    /\ Len(call.fills) < MaxFills
    /\ \E side \in {"BUY", "SELL"} :
       \E size \in LedgerSizes :
       \E known \in {LastPriceGet(broker.last_prices, symbols[1])} :
       \E mid \in IF IsNone(known) THEN LedgerMids ELSE {Val(known)} :
       \E f \in {ApplyFill(broker, LedgerOrder(side, size), mid)} :
          /\ broker' = f.broker
          /\ call' = [op |-> "submit_order", before |-> broker,
                      order |-> Some(LedgerOrder(side, size)),
                      result |-> f.result, raised |-> FALSE,
                      fills |-> Append(call.fills,
                                       <<SignedSize(LedgerOrder(side, size)),
                                         Val(f.result.avg_price)>>)]
    /\ LedgerFrame

NextLedger ==
    \/ LedgerConnect
    \/ LedgerClose
    \/ LedgerQuote
    \/ LedgerSubmitDisconnected
    \/ LedgerSubmitFetchRaises
    \/ LedgerSubmit

SpecLedger == InitLedger /\ [][NextLedger]_vars

---------------------------------------------------------------------------
(* Properties of a fill *)

\* the last operation was a submit_order that filled its order
Filled == call.op = "submit_order" /\ call.result.success /\ ~call.raised

\* the position the order's symbol had before the last submit_order, size 0 when it had none
PositionBefore ==
    IF call.order # NoOrder /\ call.order[1].symbol \in DOMAIN call.before.positions
    THEN call.before.positions[call.order[1].symbol]
    ELSE [size |-> 0, entry |-> 0, pnl |-> 0]

\* the last submit_order filled an order against the direction of the position held
OppositeFill ==
    /\ Filled
    /\ PositionBefore.size * SignedSize(call.order[1]) < 0

\* C13: an opposite-direction fill adds (fill - entry) * min(|old size|, |signed size|)
\* * sign(old size) to balance, sets size to old size + signed size, removes the position
\* when the new size is 0 and otherwise sets entry to the fill price
OppositeFillRealizes ==
    OppositeFill =>
       LET order == call.order[1]
           old == PositionBefore
           fill == Val(call.result.avg_price)
           signed == SignedSize(order)
       IN /\ broker.balance = call.before.balance
                + (fill - old.entry) * Min(Abs(old.size), Abs(signed))
                    * (IF old.size > 0 THEN 1 ELSE -1)
          /\ IF old.size + signed = 0
             THEN order.symbol \notin DOMAIN broker.positions
             ELSE /\ order.symbol \in DOMAIN broker.positions
                  /\ broker.positions[order.symbol].size = old.size + signed
                  /\ broker.positions[order.symbol].entry = fill

\* +10 @ 2000, then SELL 15 filled at 2010: realized 100, size -5, entry 2010
OppositeFillFlipScenario ==
    /\ OppositeFill
    /\ PositionBefore.size = 10
    /\ PositionBefore.entry = 2000 * PriceScale
    /\ call.order[1].side = "SELL"
    /\ call.order[1].size = 15
    /\ call.result.avg_price = Some(2010 * PriceScale)
    /\ broker.balance = call.before.balance + 100 * PriceScale
    /\ broker.positions[symbols[1]].size = -5
    /\ broker.positions[symbols[1]].entry = 2010 * PriceScale


\* every order filled since construction had the same side
SameSideFills ==
    /\ call.fills # << >>
    /\ \A i \in 1..Len(call.fills) : call.fills[i][1] * call.fills[1][1] > 0

RECURSIVE FilledSize(_)
\* the sum of the signed sizes filled
FilledSize(fills) ==
    IF fills = << >> THEN 0 ELSE fills[1][1] + FilledSize(Tail(fills))

RECURSIVE FilledCost(_)
\* the sum of fill price * |size| over the fills
FilledCost(fills) ==
    IF fills = << >> THEN 0 ELSE fills[1][2] * Abs(fills[1][1]) + FilledCost(Tail(fills))

\* C14: after fills that all have the same side, starting from no position, the position's
\* size is the sum of the filled sizes, its entry is the size-weighted average of the fill
\* prices (to within one price unit of 0.05 for each division made), and balance is unchanged
SameSideFillsAverage ==
    SameSideFills =>
       /\ symbols[1] \in DOMAIN broker.positions
       /\ broker.positions[symbols[1]].size = FilledSize(call.fills)
       /\ LET total == Abs(FilledSize(call.fills))
              entry == broker.positions[symbols[1]].entry
          IN /\ entry * total <= FilledCost(call.fills)
             /\ FilledCost(call.fills) - entry * total <= (Len(call.fills) - 1) * total
       /\ broker.balance = initial_balance

\* three fills of one side at two different prices and of different sizes
SameSideFillsAverageWitness ==
    /\ SameSideFills
    /\ Len(call.fills) = 3
    /\ call.fills[1][2] # call.fills[3][2]
    /\ call.fills[1][1] # call.fills[2][1]
    /\ broker.positions[symbols[1]].entry # call.fills[1][2]
    /\ broker.positions[symbols[1]].entry # call.fills[3][2]

\* C15: a symbol has an entry in the positions map exactly when its size is not zero: a
\* fill that brings the size to zero removes the entry, a fill that leaves a size keeps one
PositionMapInvariant ==
    /\ \A s \in DOMAIN broker.positions : broker.positions[s].size # 0
    /\ Filled =>
          (call.order[1].symbol \in DOMAIN broker.positions
             <=> PositionBefore.size + SignedSize(call.order[1]) # 0)

\* a position is closed by a fill of exactly its size, and the map is empty again
PositionMapInvariantWitness ==
    /\ OppositeFill
    /\ PositionBefore.size + SignedSize(call.order[1]) = 0
    /\ DOMAIN broker.positions = {}

\* C20: submit_order never raises, and on a Ledger that is not connected it returns a failed
\* OrderResult with reason "Disconnected" and filled size 0 and leaves the Ledger unchanged
SubmitOrderNeverRaises ==
    call.op = "submit_order" =>
       /\ ~call.raised
       /\ ~call.before.connected =>
             /\ call.result = OrderFailed("Disconnected")
             /\ broker = call.before

\* a submit_order on a Ledger that is not connected, holding a position, came back
\* "Disconnected" and left the Ledger as it was
SubmitDisconnectedWitness ==
    /\ call.op = "submit_order"
    /\ ~call.before.connected
    /\ ~call.raised
    /\ call.result.reason = "Disconnected"
    /\ call.result.filled_size = 0
    /\ DOMAIN broker.positions # {}
    /\ broker = call.before

---------------------------------------------------------------------------
(* Properties of the reconnect loop *)

\* the delays 1, 2, 4, 8, 16, 30, 30 of the spec's table, for base 1 and cap 30
BackoffTable == <<1, 2, 4, 8, 16, 30, 30, 30>>

\* the delays slept so far in the reconnect loop follow min(cap, base * 2^n), so they never
\* decrease and never exceed the cap; while the loop runs the Ledger is not connected
BackoffDelays ==
    /\ \A i \in 1..Len(hist.delays) :
          /\ hist.delays[i] = BackoffTable[i]
          /\ hist.delays[i] <= reconnect_max
          /\ i > 1 => hist.delays[i - 1] <= hist.delays[i]
    /\ pc["main"] = "connect" => ~broker.connected /\ Len(hist.delays) = local.attempt

\* the reconnect loop is left only by a connect that succeeded or with the signal set
BackoffLoopExit ==
    (pc["main"] = "connect" /\ pc'["main"] # "connect") => (broker'.connected \/ cancel_event')

\* C16: the delay before retry n of one reconnect loop is min(cap, base * 2^n), which for
\* base 1 and cap 30 is 1, 2, 4, 8, 16, 30, 30, ..., non-decreasing and never above the cap,
\* and the loop keeps retrying until a connect succeeds or the cancellation signal is set
ReconnectBackoff == []BackoffDelays /\ [][BackoffLoopExit]_vars

\* seven connects in a row have failed and the loop is about to try again
ReconnectBackoffWitness ==
    /\ pc["main"] = "connect"
    /\ ~cancel_event
    /\ hist.delays = <<1, 2, 4, 8, 16, 30, 30>>

---------------------------------------------------------------------------
(* Properties of the Risk Manager's sizing *)

BreakerReasons == {DailyLossReason, "Max drawdown breached; trading halted"}
InvalidStopReason == "Stop distance must be positive"
ZeroSizeReason == "Computed size is zero; reject order"

\* |price - stop_loss| of the last validate_order call
StopDistance == Abs(call.price - call.stop)

\* C17: whenever validate_order approves, the approved size is equity * risk_per_trade /
\* |price - stop_loss| (in the Ledger's whole units: the largest size not above it); with
\* equity 30000, no open positions and a BUY at 2000 with stop 1990, a call that no circuit
\* breaker rejects is approved with size 15
ApprovedSizeIsRiskOverStop ==
    call.op = "validate_order" =>
       /\ call.approved =>
             /\ StopDistance > 0
             /\ call.size * StopDistance * risk_per_trade[2]
                   <= call.equity * risk_per_trade[1]
             /\ call.equity * risk_per_trade[1]
                   < (call.size + 1) * StopDistance * risk_per_trade[2]
       /\ (/\ call.equity = 30000 * PriceScale
           /\ call.price = 2000 * PriceScale
           /\ call.stop = 1990 * PriceScale
           /\ DOMAIN call.book = {}
           /\ call.reason \notin BreakerReasons)
             => call.approved /\ call.size = 15

\* the scenario's call on a Risk Manager that has seen a higher equity before
ApprovedSizeScenario ==
    /\ call.op = "validate_order"
    /\ call.equity = 30000 * PriceScale
    /\ call.price = 2000 * PriceScale
    /\ call.stop = 1990 * PriceScale
    /\ DOMAIN call.book = {}
    /\ call.before.equity_peak = Some(31000 * PriceScale)
    /\ call.approved
    /\ call.size = 15

\* the size compute_position_size gives for the last call's equity, 0 when its stop
\* distance is not positive
ComputedSize == ComputePositionSize(call.equity, StopDistance).size

\* C18 as stated: every validate_order call whose stop distance is <= 0 is rejected with the
\* invalid-stop-distance reason, and every call whose computed size is <= 0 with the
\* zero-size reason, in every account state and risk state
InvalidStopAlwaysNamed ==
    call.op = "validate_order" =>
       /\ StopDistance <= 0 => ~call.approved /\ call.reason = InvalidStopReason
       /\ (StopDistance > 0 /\ ComputedSize <= 0)
             => ~call.approved /\ call.reason = ZeroSizeReason

\* C18, amended: such a call is always rejected, and with the invalid-stop-distance
\* (zero-size) reason whenever no circuit breaker rejects it first; a circuit breaker's
\* reason takes precedence because the breakers are evaluated before the sizing
InvalidStopRejected ==
    call.op = "validate_order" =>
       /\ StopDistance <= 0 =>
             /\ ~call.approved
             /\ call.reason \in BreakerReasons \cup {InvalidStopReason}
             /\ call.reason = InvalidStopReason
                   <=> CheckCircuitBreakers(call.before, call.equity).reason = "ok"
       /\ (StopDistance > 0 /\ ComputedSize <= 0) =>
             /\ ~call.approved
             /\ call.reason \in BreakerReasons \cup {ZeroSizeReason}
             /\ call.reason = ZeroSizeReason
                   <=> CheckCircuitBreakers(call.before, call.equity).reason = "ok"

\* a call with the stop at the price, on a Risk Manager whose breakers do not trip, is
\* rejected for its stop distance
InvalidStopRejectedWitness ==
    /\ call.op = "validate_order"
    /\ StopDistance = 0
    /\ call.before.daily_start_equity # None
    /\ ~call.approved
    /\ call.reason = InvalidStopReason

---------------------------------------------------------------------------
(* The execution pipeline under every kind of decision: the producer and the consumer of
   one run, with quotes that jump and stops on either side of the price.  The consumer is
   the only task that checkpoints here, so it never waits for the State Store's lock. *)

\* closes the feed delivers: 2000.0, and 2100.0 (a move of 5 %, above the volatility limit)
PipelineMids == {2000 * PriceScale, 2100 * PriceScale}

\* what the strategy may answer: no stop, a stop on the wrong side, a stop on the right side
PipelineDecisions(tick) ==
    {[signal |-> "HOLD", stop_loss |-> None],
     [signal |-> "BUY", stop_loss |-> None],
     [signal |-> "BUY", stop_loss |-> Some(tick.close + StopOffset)],
     [signal |-> "SELL", stop_loss |-> Some(tick.close - StopOffset)],
     [signal |-> "BUY", stop_loss |-> Some(tick.close - StopOffset)],
     [signal |-> "SELL", stop_loss |-> Some(tick.close + StopOffset)]}

\* the last call of execute: the quote, the decision, and what came back before the first
\* suspension (status "latency": the order was approved and submitted)
PipelineCall(tick, answer, e) ==
    [op |-> "execute", id |-> tick.id, signal |-> answer.signal, status |-> e.status,
     result |-> e.result]

NoPipelineCall ==
    [op |-> "none", id |-> 0, signal |-> "HOLD", status |-> "result",
     result |-> OrderFailed("none")]

InitPipeline ==
    /\ EngineInit
    /\ call = NoPipelineCall

PipelineFetch ==
    /\ \E close \in PipelineMids : FetchQuote(close)
    /\ UNCHANGED call

\* the consumer handles the next quote; the outcome of execute is recorded
PipelineHandle ==
    /\ queue # << >>
    /\ \E answer \in PipelineDecisions(QueueTake(queue).tick) :
          /\ HandleTick(answer)
          /\ \E b1 \in {AccountRefresh(broker)} :
             \E account \in {AccountInfo(b1)} :
                call' = PipelineCall(QueueTake(queue).tick, answer,
                           HandleDecision(QueueTake(queue).tick, answer, account,
                                          b1.positions,
                                          RolloverRisk(risk, state, account, today),
                                          b1.connected))

NextPipeline ==
    \/ MainLoad
    \/ MainConnect
    \/ PipelineFetch
    \/ ProducerPut
    \/ ProducerPoll
    \/ PipelineHandle
    \/ ConsumerFill
    \/ PersistWrite("consumer")
    \/ PersistReplace("consumer")

SpecPipeline == InitPipeline /\ [][NextPipeline]_vars

\* the last execute call rejected its order
Rejected == call.op = "execute" /\ call.signal # "HOLD" /\ call.status = "result"
               /\ ~call.result.success

\* the consumer has just handled a quote whose order the pipeline rejected
RejectionStep == hist'.handled # hist.handled /\ Rejected'

\* every rejection of the pipeline that a run can meet
RejectionReasons ==
    {"Stop-loss required", "Volatility too high", "Stop-loss must be below entry for BUY",
     "Stop-loss must be above entry for SELL", "Per-symbol exposure limit exceeded",
     DailyLossReason}

\* a rejected order comes back as a failed OrderResult with nothing filled and a reason
RejectionResult ==
    Rejected => /\ call.result = OrderFailed(call.result.reason)
                /\ call.result.reason \in RejectionReasons

\* what the step that handles a rejected order leaves alone
RejectionFrame ==
    RejectionStep =>
       /\ broker' = broker
       /\ file' = file /\ tmp' = tmp /\ lock' = lock
       /\ queue' = Tail(queue)
       /\ local'.order = NoOrder
       /\ Len(hist'.gate) <= 1
       /\ \A i \in 1..Len(hist'.gate) : hist'.gate[i].op = "validate_order"
       /\ pc'["consumer"] = "get"
       /\ hist'.failed = {}

\* C19: a rejection in the execution pipeline comes back as a failed OrderResult, leaves
\* the Ledger unchanged, writes no checkpoint, is not retried (the quote is gone from the
\* queue, the Risk Manager was asked at most once and the Ledger never), and the consumer
\* goes on to the next quote
RejectionLeavesLedger == []RejectionResult /\ [][RejectionFrame]_vars

\* the Risk Manager rejected an order while a position is held
RejectionLeavesLedgerWitness ==
    /\ Rejected
    /\ Len(hist.gate) = 1
    /\ DOMAIN broker.positions # {}
    /\ pc["consumer"] = "get"
    /\ Len(hist.handled) >= 2


---------------------------------------------------------------------------
(* Properties of the Risk Manager's peak and daily-start equity *)

\* C21: within one trading day the equity peak never decreases across validate_order calls
\* and the daily-start equity does not change once set; both are reset only by the day
\* rollover
PeakNeverDecreases ==
    call.op = "validate_order" =>
       /\ call.before.equity_peak # None =>
             Val(risk.equity_peak) >= Val(call.before.equity_peak)
       /\ call.before.daily_start_equity # None =>
             risk.daily_start_equity = call.before.daily_start_equity

\* a call with a higher equity has raised the peak and left the daily-start equity alone
PeakRaised ==
    /\ call.op = "validate_order"
    /\ call.before.equity_peak = Some(30000 * PriceScale)
    /\ call.before.daily_start_equity = Some(30000 * PriceScale)
    /\ risk.equity_peak = Some(31000 * PriceScale)
    /\ risk.daily_start_equity = Some(30000 * PriceScale)

---------------------------------------------------------------------------
(* Termination of a run with a bounded duration *)

\* the scheduling of one run: run()'s bounded sleep ends, a cancelled task is resumed with
\* its CancelledError, a task inside persist finishes it, and stop() goes on once gather
\* has returned
Fairness ==
    /\ WF_vars(MainStop)
    /\ WF_vars(MainClose)
    /\ \A t \in Activities : WF_vars(TaskCancelled(t))
    /\ \A t \in Tasks : WF_vars(PersistBegin(t))
    /\ \A t \in Tasks : WF_vars(PersistWrite(t))
    /\ \A t \in Tasks : WF_vars(PersistReplace(t))

\* a first start with no state file
InitLive ==
    /\ Init
    /\ file = None

\* the steps of one run on one calendar day whose first connect succeeds
NextLive ==
    \/ MainLoad
    \/ MainConnect
    \/ MainStop
    \/ MainClose
    \/ \E t \in Activities : TaskCancelled(t)
    \/ ProducerFetch
    \/ ProducerFetchError
    \/ ProducerPut
    \/ ProducerPoll
    \/ ConsumerHandle
    \/ ConsumerFill
    \/ MonitorIterate
    \/ \E t \in Tasks : PersistBegin(t)
    \/ \E t \in Tasks : PersistWrite(t)
    \/ \E t \in Tasks : PersistReplace(t)
    \/ ClockTick

\* one run of the process under fair scheduling
SpecLive == InitLive /\ [][NextLive]_vars /\ Fairness

\* stop() has returned: the three tasks have ended, the Ledger is closed and the final
\* checkpoint is the content of the state file
Stopped ==
    /\ pc["main"] = "stopped"
    /\ cancel_event
    /\ \A t \in Activities : pc[t] = "done"
    /\ ~broker.connected
    /\ hist.lastWriter = "main"
    /\ file = Some(hist.written)

\* C22: a run with a bounded duration terminates gracefully: once run() has started its
\* tasks, under fair scheduling stop() is eventually called, the three activities end
\* wherever they were, the Ledger is closed and the final checkpoint is written
GracefulStopTerminates == (pc["main"] = "running") ~> Stopped

\* stop() has returned after cancelling a producer that was blocked on the full queue: the
\* quote it held was yielded and never enqueued
GracefulStopWitness ==
    /\ Stopped
    /\ Len(queue) = QueueMaxsize
    /\ Len(hist.yielded) > Len(hist.enqueued)

---------------------------------------------------------------------------
(* Properties of the order of validate_order's checks *)

\* the notional of the last call's order at the size equity * risk_per_trade / distance,
\* and the notional the account already holds, valued at the order's price
OrderNotional ==
    call.price * ((call.equity * risk_per_trade[1])
                     \div (risk_per_trade[2] * StopDistance))
HeldNotional(S) == SumOver([s \in S |-> Abs(call.book[s].size * call.price)], S)

\* the reason of the earliest rule, in the spec's order, that the last call violates, with
\* the daily-start equity and the peak the call left; "ok" when it violates none
FirstFailingRule ==
    IF call.equity * max_daily_loss[2]
          <= Val(risk.daily_start_equity) * (max_daily_loss[2] - max_daily_loss[1])
    THEN DailyLossReason
    ELSE IF call.equity * max_drawdown[2]
               <= Val(risk.equity_peak) * (max_drawdown[2] - max_drawdown[1])
    THEN "Max drawdown breached; trading halted"
    ELSE IF StopDistance <= 0
    THEN InvalidStopReason
    ELSE IF OrderNotional <= 0
    THEN ZeroSizeReason
    ELSE IF RiskAccount(call.equity, call.book).margin_used
               + OrderNotional \div leverage_limit > call.equity
    THEN "Insufficient margin for order"
    ELSE IF HeldNotional(DOMAIN call.book \cap {symbols[1]}) + OrderNotional
               > call.equity * max_symbol_exposure
    THEN "Per-symbol exposure limit exceeded"
    ELSE IF HeldNotional(DOMAIN call.book) + OrderNotional
               > call.equity * max_global_exposure
    THEN "Global exposure limit exceeded"
    ELSE "ok"

\* the rejection reason is that of the earliest rule violated
RejectionIsFirstFailing ==
    call.op = "validate_order" =>
       /\ call.reason = FirstFailingRule
       /\ call.approved <=> call.reason = "ok"

\* the circuit-breaker step has initialised an unset daily-start equity and peak from the
\* equity and has set the peak to max(peak, equity), whatever the outcome of the call
BreakerStepUpdates ==
    call.op = "validate_order" =>
       /\ risk.daily_start_equity =
             IF IsNone(call.before.daily_start_equity) THEN Some(call.equity)
             ELSE call.before.daily_start_equity
       /\ risk.equity_peak =
             IF IsNone(call.before.daily_start_equity) \/ IsNone(call.before.equity_peak)
             THEN Some(call.equity)
             ELSE Some(Max(Val(call.before.equity_peak), call.equity))

\* C23: validate_order reports the first check that fails in the order daily loss, max
\* drawdown, invalid stop distance, zero size, insufficient margin, per-symbol exposure,
\* global exposure; and its circuit-breaker step initialises the daily-start equity and
\* the peak when unset and updates the peak to max(peak, equity) even when the call is
\* then rejected
ChecksInOrder == RejectionIsFirstFailing /\ BreakerStepUpdates

\* an order that breaks the margin rule and both exposure rules, on an account holding the
\* symbol already, is rejected for its margin
ChecksInOrderWitness ==
    /\ call.op = "validate_order"
    /\ DOMAIN call.book = {symbols[1]}
    /\ StopDistance = 1
    /\ HeldNotional(DOMAIN call.book) + OrderNotional > call.equity * max_global_exposure
    /\ call.reason = "Insufficient margin for order"
    /\ risk.equity_peak = Some(call.equity)
    /\ call.before.equity_peak # risk.equity_peak

---------------------------------------------------------------------------
(* The health monitor's checkpoints against the clock: one run without stop(), where the
   time since the most recent checkpoint of any task is kept beside _last_persist *)

\* elapsed: seconds since the most recent replacement of the state file by any task, or
\* since construction when there was none (saturating); wrote and due: whether the
\* monitor's last iteration started a checkpoint, and whether more than the checkpoint
\* interval had then elapsed since the most recent checkpoint
NoMonitorCall == [op |-> "none", elapsed |-> 0, wrote |-> FALSE, due |-> FALSE]

InitMonitor ==
    /\ EngineInit
    /\ file = None
    /\ call = NoMonitorCall

MonitorClock ==
    /\ sincePersist < 2 * CheckpointInterval \/ call.elapsed < 2 * CheckpointInterval
    /\ ClockAdvance
    /\ call' = [call EXCEPT !.elapsed = Min(@ + ClockStep, 2 * CheckpointInterval)]

\* a task's persist replaces the state file: a checkpoint has been written
MonitorReplace(t) ==
    /\ Replace(t)
    /\ call' = [call EXCEPT !.elapsed = 0]

\* one iteration of the health monitor, with what it decided
MonitorCheck ==
    /\ MonitorStep
    /\ call' = [call EXCEPT !.op = "iterate",
                            !.wrote = pc'["monitor"] \in {"persist", "p_write"},
                            !.due = call.elapsed > CheckpointInterval]

NextMonitor ==
    \/ MainLoad
    \/ MainConnect
    \/ ProducerFetch
    \/ ProducerPut
    \/ ProducerPoll
    \/ ConsumerHandle
    \/ ConsumerFill
    \/ MonitorCheck
    \/ \E t \in Activities : PersistBegin(t)
    \/ \E t \in Activities : PersistWrite(t)
    \/ \E t \in Activities : MonitorReplace(t)
    \/ MonitorClock

SpecMonitor == InitMonitor /\ [][NextMonitor]_vars

\* C24: on each iteration the health monitor writes a checkpoint if and only if more than
\* the checkpoint interval has elapsed since the most recent checkpoint written by any
\* activity, a checkpoint of the consumer after a successful order included
MonitorCheckpointsWhenDue ==
    call.op = "iterate" => (call.wrote <=> call.due)

\* the monitor has started a checkpoint more than the interval after the last one, in a
\* run where the consumer has filled an order
MonitorCheckpointsWitness ==
    /\ call.op = "iterate"
    /\ call.wrote
    /\ call.due
    /\ hist.filled
    /\ hist.lastWriter = "consumer"

---------------------------------------------------------------------------
(* What a checkpoint carries *)

\* the dict a persist call serializes, read back from the text it is about to write
SerializedState(text) == ObjToState(Loads(text).val)

\* a snapshot whose equity is its balance plus the pnl of its own positions
SnapshotConsistent(s) ==
    s.equity = s.balance + SumPositions(s.positions, LAMBDA p : p.pnl)

\* a snapshot that carries the ledger's balance, equity, margin used and positions
SnapshotCurrent(s, b) ==
    /\ s.balance = b.balance
    /\ s.equity = b.equity
    /\ s.margin_used = b.margin_used
    /\ s.positions = b.positions

\* C25: every snapshot a persist call serializes (the consumer's after a successful order,
\* the health monitor's, stop()'s) has equity = balance + the sum of pnl over its own
\* positions, and the consumer's carries the Ledger's balance, equity, margin used and
\* positions as they are after the fill
SnapshotsConsistentAndCurrent ==
    [][\A t \in Tasks :
          (pc[t] # "p_write" /\ pc'[t] = "p_write") =>
             /\ SnapshotConsistent(SerializedState(local'.data[t]))
             /\ t = "consumer" => SnapshotCurrent(SerializedState(local'.data[t]), broker')]_vars

\* the consumer is writing the checkpoint of a filled order
PostFillCheckpoint ==
    /\ hist.filled
    /\ pc["consumer"] = "p_write"
    /\ DOMAIN SerializedState(local.data["consumer"]).positions # {}

\* the positions of the consumer's snapshot are the Ledger's (the dict is shared)
SnapshotPositionsCurrent ==
    [][(pc["consumer"] # "p_write" /\ pc'["consumer"] = "p_write") =>
          SerializedState(local'.data["consumer"]).positions = broker'.positions]_vars

---------------------------------------------------------------------------
(* The price of a fill against the price that was validated *)

\* the mid of the quote an order was built from: its price is the quote's ask for a BUY
\* and its bid for a SELL (execution.py 45)
ValidatedMid(order) ==
    IF order.side = "BUY"
    THEN order.price - Div(simulated_spread, 2)
    ELSE order.price + Div(simulated_spread, 2)

\* the step in which submit_order fills the consumer's order
FillStep ==
    /\ pc["consumer"] = "latency"
    /\ pc'["consumer"] # "latency"
    /\ broker' # broker

\* C26: the mid submit_order computes a fill from is the mid of the quote whose decision
\* is executed, so the Ledger after the fill is the one a fill at the validated entry
\* price plus slippage gives, whatever the producer did meanwhile
FillAtValidatedPrice ==
    [][FillStep =>
          /\ LastPriceGet(broker.last_prices, local.order[1].symbol)
                = Some(ValidatedMid(local.order[1]))
          /\ broker' = ApplyFill(broker, local.order[1], ValidatedMid(local.order[1])).broker]_vars

\* the consumer is in the order-latency delay and the last known price is no longer the
\* mid of the quote its order was validated against
PriceMovedDuringLatency ==
    /\ pc["consumer"] = "latency"
    /\ ~cancel_event
    /\ LastPriceGet(broker.last_prices, local.order[1].symbol)
          # Some(ValidatedMid(local.order[1]))

---------------------------------------------------------------------------
(* Orders and shutdown *)

\* the part of the Ledger an order changes
LedgerBook(b) ==
    [balance |-> b.balance, positions |-> b.positions,
     equity |-> b.equity, margin_used |-> b.margin_used]

\* C27: once stop() has set the cancellation signal no order is filled and the Ledger's
\* balance and positions do not change again, also when the consumer was inside
\* submit_order's latency delay at that moment; and whenever the consumer leaves the
\* latency delay its order has either been applied completely, before the signal, or not
\* at all
NoFillAfterStop ==
    [][/\ cancel_event => LedgerBook(broker') = LedgerBook(broker)
       /\ (pc["consumer"] = "latency" /\ pc'["consumer"] # "latency") =>
             \/ LedgerBook(broker') = LedgerBook(broker)
             \/ /\ ~cancel_event
                /\ \E mid \in MidPrices :
                      broker' = ApplyFill(broker, local.order[1], mid).broker]_vars

\* stop() has set the signal while the consumer is inside submit_order's latency delay
\* with an approved order
StopDuringLatency ==
    /\ cancel_event
    /\ pc["consumer"] = "latency"
    /\ local.order # NoOrder

=============================================================================
